---- MODULE Spec2Model ----
(***************************************************************************)
(* Model of ReadManyFilesTool.execute                                      *)
(* (packages/core/src/tools/read-many-files.ts).                           *)
(*                                                                         *)
(* One run of the specification is one call of execute.  The inputs (the   *)
(* parameter record, the ephemeral settings and the files glob can find)   *)
(* are chosen in Init; every await point of execute is one action.         *)
(*                                                                         *)
(* A file is a number: files are numbered in the lexicographic order of    *)
(* their absolute paths, so Array.sort() of paths is the ascending order   *)
(* of numbers.  What the filesystem and the external collaborators         *)
(* (glob, the workspace context, the file discovery service,               *)
(* detectFileType, processSingleFileContent) answer for a file is its      *)
(* "kind", held in fs.  A string is modelled by its length in characters   *)
(* and a prefix of a file's contentToAdd by the pair (file, length).       *)
(***************************************************************************)
EXTENDS Integers, Sequences, FiniteSets, TLC

VARIABLES
    paramsKind,      \* what validateParams / the pattern lists say of params
    respectGit,      \* fileFilteringOptions.respectGitIgnore
    respectLlxprt,   \* fileFilteringOptions.respectLlxprtIgnore
    truncateMode,    \* ephemeral 'tool-output-truncate-mode'
    maxFileCount,    \* ephemeral 'tool-output-max-items'
    maxTokens,       \* ephemeral 'tool-output-max-tokens'
    fs,              \* file number -> kind, the files the patterns match
    params,          \* paths, include, exclude, useDefaultExcludes
    llxprtIgnorePatterns, \* this.llxprtIgnorePatterns, set by the constructor
    excludedBy,      \* file number -> the pattern sources that match it
    globRuns,        \* the workspace directories and the order glob answers in
    abortedAt,       \* -1, or the number of files stat'ed when signal aborted
    description,     \* what getDescription returned, kind "none" before
    pc,              \* position in execute
    skippedFiles,    \* Array<{path, reason}>
    sortedFiles,     \* the candidates, sorted, after the count limit
    candidates,      \* Array.from(filesToConsider).sort() before the limit
    idx,             \* loop position in sortedFiles (1-based)
    totalTokens,
    contentParts,
    processedFilesRelativePaths,
    result,          \* the ToolResult returned, kind "none" while running
    globbed,         \* glob() was called
    globArgs,        \* the lists execute built and handed to glob
    statted,         \* files handed to stat()
    readFiles,       \* files handed to processSingleFileContent()
    readable,        \* memory discovery: the context files fs.access admits
    gitDirs,         \* the directories that hold a .git directory
    currentWorkingDirectory,
    includeDirectoriesToReadContext,
    contextFilenames, \* getAllContextFilenames()
    extensionContextFilePaths,
    mpc,             \* position in loadServerHierarchicalMemory
    dirsLeft,        \* the directories getContextFilePathsInternal has to scan
    paths,           \* getContextFilePathsInternal: paths
    filePaths,       \* what getContextFilePathsInternal returned
    fileKinds,       \* context file -> what reading and expanding it gives
    contentsWithPaths, \* readContextFiles: results
    loaded,          \* what loadServerHierarchicalMemory returned
    importsOf,       \* context file -> the files its import directives name
    importStack,     \* processImports: the calls in progress, outermost first
    importLog,       \* processImports: the expansions and the diagnostics
    warningsFile,    \* the temporary warnings file: <<>> or <<its content>>
    fault,           \* the fs call that rejects in this getStartupWarnings
    wpc,             \* position in getStartupWarnings
    warnings,        \* getStartupWarnings: the array it builds and returns
    returned         \* the calls of getStartupWarnings that have returned

vars == <<paramsKind, respectGit, respectLlxprt, truncateMode, maxFileCount,
          maxTokens, fs, pc, skippedFiles, sortedFiles, candidates, idx,
          totalTokens, contentParts, processedFilesRelativePaths, result,
          globbed, statted, readFiles, params, llxprtIgnorePatterns,
          excludedBy, globRuns, abortedAt, description, globArgs,
          readable, gitDirs, currentWorkingDirectory,
          includeDirectoriesToReadContext, contextFilenames,
          extensionContextFilePaths, mpc, dirsLeft, paths, filePaths,
          fileKinds, contentsWithPaths, loaded, importsOf, importStack,
          importLog, warningsFile, fault, wpc, warnings, returned>>

\* what execute reads and never writes
inputs == <<paramsKind, respectGit, respectLlxprt, truncateMode, maxFileCount,
            maxTokens, fs, params, llxprtIgnorePatterns, excludedBy, globRuns>>


(***************************************************************************)
(* Bounds of the model.                                                    *)
(***************************************************************************)
\* files of arbitrary, mixed kinds
MaxFiles == 3
\* files that are all of one kind
MaxUniform == 6
\* length of every absolute path ("/ws/fileN.ts")
PathLen == 12
\* files tried with every combination of exclusion sources
MaxExclFiles == 2
\* patterns in one list of the parameter record
MaxPatterns == 2
\* files tried with every shape of the parameter record
MaxDescFiles == 1
\* files of mixed kinds that glob returns in any of its orders
MaxOrderFiles == 2
\* readable context files in the directory tree of memory discovery
MaxContextFiles == 5
\* the number of context files of a load
MaxLoadFiles == 3
\* the depth cap of import expansion: the deepest nesting of an import
MaxImportDepth == 1
\* the lines of the temporary warnings file
MaxWarnLines == 2
\* the calls of getStartupWarnings in one run
MaxCalls == 2

(***************************************************************************)
(* Program constants.                                                      *)
(***************************************************************************)
DEFAULT_MAX_FILE_COUNT == 50
DEFAULT_MAX_TOKENS == 50000
DEFAULT_FILE_SIZE_LIMIT == 524288
\* characters per token in estimateTokens
CharsPerToken == 4
\* tokens charged for an image or PDF part
AssetTokens == 85
\* truncate mode adds a prefix only when more than this many tokens remain
MinTruncateTokens == 100
\* at most this many skip records are listed in returnDisplay
MaxShownSkipped == 5
\* at most this many processed files are listed in returnDisplay
MaxShownProcessed == 10
\* at most this many exclusion patterns are quoted by getDescription
MaxShownExcludes == 2
\* '--- {filePath} ---' without the path: 4 + 4 characters
SeparatorExtra == 8
\* the truncation warning put before the content of a truncated read
TruncWarningLen == 111
\* '\n\n[CONTENT TRUNCATED DUE TO TOKEN LIMIT]'
TruncMarkerLen == 40
\* bytes per KB in the size skip reason
BytesPerKB == 1024

Modes == {"warn", "truncate", "sample"}
ParamsKinds == {"invalid", "empty", "ok"}
\* 'tool-output-max-items' tried with files of one kind
MaxItemsChoices == (0..MaxUniform) \cup {DEFAULT_MAX_FILE_COUNT}
\* 'tool-output-max-items' tried with files of mixed kinds
MixedMaxItemsChoices == {1, 2, DEFAULT_MAX_FILE_COUNT}
MaxTokensChoices == {110, 111, DEFAULT_MAX_TOKENS}
\* the orders glob may answer in: ascending or descending paths for one
\* workspace directory, or two directories that return a path twice
GlobOrders == {"asc", "desc", "twoDirs"}

(***************************************************************************)
(* The kinds of file, and what the collaborators answer for each.          *)
(***************************************************************************)
Kinds == {"outside", "gitIgnored", "llxprtIgnored", "statError", "tooBig",
          "assetNotRequested", "asset", "readError", "small", "large"}

\* mutant: the workspace check trusts every path glob returns
isPathWithinWorkspace_Trusting(f) == TRUE

\* WorkspaceContext.isPathWithinWorkspace
isPathWithinWorkspace(f) == fs[f] # "outside"
\* fileDiscovery.filterFiles(..., {respectGitIgnore: true}) drops the file
GitIgnores(f) == fs[f] = "gitIgnored"
\* fileDiscovery.filterFiles(..., {respectLlxprtIgnore: true}) drops the file
LlxprtIgnores(f) == fs[f] = "llxprtIgnored"
\* stat() rejects
StatFails(f) == fs[f] = "statError"
\* stats.size
StatSize(f) ==
    CASE fs[f] = "tooBig" -> 600000
      [] fs[f] = "large" -> DEFAULT_FILE_SIZE_LIMIT
      [] fs[f] \in {"asset", "assetNotRequested"} -> 2048
      [] OTHER -> 16
\* detectFileType is 'image' or 'pdf'
IsAsset(f) == fs[f] \in {"asset", "assetNotRequested"}
\* inputPatterns.some(pattern names the extension or the file name)
RequestedExplicitly(f) == fs[f] = "asset"
\* processSingleFileContent returned an error
ReadFails(f) == fs[f] = "readError"
\* fileReadResult.isTruncated
IsTruncated(f) == fs[f] = "large"
\* fileReadResult.llmContent.length of a text file
ContentLen(f) == IF fs[f] = "large" THEN 346 ELSE 16

CeilDiv(a, b) == (a + b - 1) \div b
\* Math.round(a / b) for a, b >= 0
RoundDiv(a, b) == (2 * a + b) \div (2 * b)
Min(a, b) == IF a < b THEN a ELSE b

\* estimateTokens(text), text given by its length
estimateTokens(len) == CeilDiv(len, CharsPerToken)

\* `${separator}\n\n${fileContentForLlm}\n\n`, by its length
ContentToAddLen(f) ==
    (PathLen + SeparatorExtra) + 2
    + (IF IsTruncated(f) THEN TruncWarningLen ELSE 0) + ContentLen(f) + 2

(***************************************************************************)
(* Records.                                                                *)
(***************************************************************************)
\* A skip record {path, reason}.  path is a file (pkind "file", pn the file)
\* or a text `${pn} file(s)` (pkind "count") or `${pn} remaining file(s)`
\* (pkind "remaining"); reason is a text with up to two values x, y in it
\* (the path of the security reason, the sizes or the limit of the others).
Skip(pkind, pn, reason, x, y) ==
    [pkind |-> pkind, pn |-> pn, reason |-> reason, x |-> x, y |-> y]

\* A part of llmContent: the first len characters of file's contentToAdd
\* (text), followed by the truncation marker when marker; or the inlineData
\* part of an image or PDF (text FALSE).
Part(f, text, len, marker) ==
    [file |-> f, text |-> text, len |-> len, marker |-> marker]

NoDisplay ==
    [processed |-> 0, tokens |-> 0, shownProcessed |-> <<>>,
     moreProcessed |-> 0, skipped |-> 0, shownSkipped |-> <<>>,
     moreSkipped |-> 0, matched |-> 0, limit |-> 0]

NoResult == [kind |-> "none", llmContent |-> <<>>, returnDisplay |-> NoDisplay]

(***************************************************************************)
(* The pattern lists of the parameter record.  A pattern string is a       *)
(* number made of the list it was given in (src), its position there (n)   *)
(* and whether it is written with backslashes.  An optional parameter is   *)
(* <<>> when it is undefined and <<v>> when it has the value v.            *)
(***************************************************************************)
\* the number of entries of DEFAULT_EXCLUDES
DefaultExcludesCount == 36

\* the lists a pattern can be given in
PatternLists == <<"default", "paths", "include", "exclude", "llxprt">>

\* the numbers of the patterns of one list start at a multiple of this
PatBase == 100

Pat(src, n, bs) ==
    PatBase * (CHOOSE k \in DOMAIN PatternLists : PatternLists[k] = src)
    + 2 * n + (IF bs THEN 1 ELSE 0)

\* the list a pattern was given in
PatSrc(q) == PatternLists[q \div PatBase]

\* the pattern is written with backslashes
HasBackslash(q) == q % 2 = 1

DEFAULT_EXCLUDES == [i \in 1..DefaultExcludesCount |-> Pat("default", i, FALSE)]

\* the lists whose patterns glob is told to ignore
Sources == {"default", "exclude", "llxprt"}

\* a destructuring default: `{ x = d } = params`
DefaultTo(opt, d) == IF Len(opt) = 0 THEN d ELSE opt[1]

\* `params.x || []`
OrEmpty(opt) == IF Len(opt) = 0 THEN <<>> ELSE opt[1]

\* execute: searchPatterns = [...inputPatterns, ...include]
SearchPatterns(p) == p.paths \o DefaultTo(p.include, <<>>)

\* what memory discovery reads and never writes
memoryInputs == <<readable, gitDirs, currentWorkingDirectory,
                  includeDirectoriesToReadContext, contextFilenames,
                  extensionContextFilePaths>>

\* what readContextFiles and the return of loadServerHierarchicalMemory
\* read and write
loading == <<fileKinds, contentsWithPaths, loaded, importsOf, importStack,
            importLog>>

\* the state of getStartupWarnings
startup == <<warningsFile, fault, wpc, warnings, returned>>

\* the state of memory discovery and of the startup warnings, which the
\* tool never touches
memory == <<memoryInputs, mpc, dirsLeft, paths, filePaths, loading, startup>>

\* what the callers read before execute runs
callers == <<abortedAt, description>>

\* what execute writes
written == <<pc, skippedFiles, sortedFiles, candidates, idx, totalTokens,
             contentParts, processedFilesRelativePaths, result, globbed,
             globArgs, statted, readFiles>>

\* mutant: the .llxprtignore patterns are left out when the defaults are used
EffectiveExcludes_DropLlxprt(p, ignorePatterns) ==
    IF DefaultTo(p.useDefaultExcludes, TRUE)
    THEN DEFAULT_EXCLUDES \o DefaultTo(p.exclude, <<>>)
    ELSE DefaultTo(p.exclude, <<>>) \o ignorePatterns

\* execute: effectiveExcludes
EffectiveExcludes(p, ignorePatterns) ==
    IF DefaultTo(p.useDefaultExcludes, TRUE)
    THEN DEFAULT_EXCLUDES \o DefaultTo(p.exclude, <<>>) \o ignorePatterns
    ELSE DefaultTo(p.exclude, <<>>) \o ignorePatterns

\* p.replace(/\\/g, '/'), mapped over the patterns handed to glob
SlashPatterns(patterns) ==
    [i \in 1..Len(patterns) |->
        IF HasBackslash(patterns[i]) THEN patterns[i] - 1 ELSE patterns[i]]

\* getDescription: allPatterns
DescriptionPatterns(p) == p.paths \o OrEmpty(p.include)

\* mutant: the description leaves the .llxprtignore patterns out
DescriptionExcludes_NoLlxprt(p, ignorePatterns) ==
    IF p.useDefaultExcludes # <<FALSE>>
    THEN DEFAULT_EXCLUDES \o OrEmpty(p.exclude)
    ELSE OrEmpty(p.exclude)

\* getDescription: finalExclusionPatternsForDescription
DescriptionExcludes(p, ignorePatterns) ==
    IF p.useDefaultExcludes # <<FALSE>>
    THEN DEFAULT_EXCLUDES \o OrEmpty(p.exclude) \o ignorePatterns
    ELSE OrEmpty(p.exclude) \o ignorePatterns

\* a parameter record with one path pattern and nothing else
PlainParams ==
    [paths |-> <<Pat("paths", 1, FALSE)>>, include |-> <<>>, exclude |-> <<>>,
     useDefaultExcludes |-> <<>>]

\* a parameter record without any search pattern
NoPatternParams == [PlainParams EXCEPT !.paths = <<>>]

NoDescription ==
    [kind |-> "none", patterns |-> <<>>, excludes |-> <<>>,
     shownExcludes |-> <<>>, moreExcludes |-> FALSE, fromLlxprtignore |-> 0]

NoGlobArgs ==
    [searchPatterns |-> <<>>, patterns |-> <<>>, ignore |-> <<>>]

\* what every call of execute starts from
ExecuteEntry ==
    /\ pc = "start"
    /\ skippedFiles = <<>>
    /\ sortedFiles = <<>>
    /\ candidates = <<>>
    /\ idx = 1
    /\ totalTokens = 0
    /\ contentParts = <<>>
    /\ processedFilesRelativePaths = <<>>
    /\ result = NoResult
    /\ globbed = FALSE
    /\ globArgs = NoGlobArgs
    /\ statted = {}
    /\ readFiles = {}
    /\ abortedAt = -1
    /\ description = NoDescription

\* loadServerHierarchicalMemory has returned nothing yet
NoLoaded == [memoryContent |-> <<>>, fileCount |-> -1]

\* readContextFiles is not running
LoadingIdle ==
    /\ fileKinds = <<>>
    /\ contentsWithPaths = <<>>
    /\ loaded = NoLoaded
    /\ importsOf = <<>>
    /\ importStack = <<>>
    /\ importLog = <<>>

\* getStartupWarnings is not running
StartupIdle ==
    /\ warningsFile = <<>>
    /\ fault = "none"
    /\ wpc = "idle"
    /\ warnings = <<>>
    /\ returned = <<>>

\* loadServerHierarchicalMemory is not running
MemoryIdle ==
    /\ LoadingIdle
    /\ StartupIdle
    /\ readable = {}
    /\ gitDirs = {}
    /\ currentWorkingDirectory = <<>>
    /\ includeDirectoriesToReadContext = <<>>
    /\ contextFilenames = <<>>
    /\ extensionContextFilePaths = <<>>
    /\ mpc = "idle"
    /\ dirsLeft = <<>>
    /\ paths = <<>>
    /\ filePaths = <<>>

(***************************************************************************)
(* Init: the state when execute is entered.  The inputs are either a few   *)
(* files of arbitrary kinds, or more files that are all of one kind.       *)
(***************************************************************************)
Init ==
    /\ truncateMode \in Modes
    /\ maxTokens \in MaxTokensChoices
    /\ \/ /\ \E n \in 0..MaxFiles : fs \in [1..n -> Kinds]
          /\ paramsKind = "ok"
          /\ maxFileCount \in MixedMaxItemsChoices
          /\ respectGit = TRUE
          /\ respectLlxprt = TRUE
       \/ /\ \E n \in 1..MaxUniform : \E k \in Kinds : fs = [f \in 1..n |-> k]
          /\ paramsKind \in ParamsKinds
          /\ maxFileCount \in MaxItemsChoices
          /\ respectGit \in BOOLEAN
          /\ respectLlxprt \in BOOLEAN
    /\ params = IF paramsKind = "empty" THEN NoPatternParams ELSE PlainParams
    /\ llxprtIgnorePatterns = <<>>
    /\ excludedBy = [f \in DOMAIN fs |-> {}]
    /\ globRuns = "asc"
    /\ ExecuteEntry
    /\ MemoryIdle


\* the parameter records tried with the exclusion sources
ExclParams ==
    {[PlainParams EXCEPT !.exclude = e, !.useDefaultExcludes = u] :
        e \in {<<>>, << <<Pat("exclude", 1, FALSE)>> >>},
        u \in {<<>>, <<TRUE>>, <<FALSE>>}}

\* what the ignore filters say of a file tried with the exclusion sources
ExclKinds == {"gitIgnored", "llxprtIgnored", "small"}

\* the pattern lists that match a file tried with the exclusion sources
ExclMatches == {{}, {"default"}, {"exclude"}, {"llxprt"}, Sources}

\* execute is entered with files that the exclusion sources match or not
InitExcl ==
    /\ paramsKind = "ok"
    /\ params \in ExclParams
    /\ llxprtIgnorePatterns \in {<<>>, <<Pat("llxprt", 1, FALSE)>>}
    /\ respectGit \in BOOLEAN
    /\ respectLlxprt \in BOOLEAN
    /\ truncateMode = "warn"
    /\ maxFileCount = DEFAULT_MAX_FILE_COUNT
    /\ maxTokens = DEFAULT_MAX_TOKENS
    /\ \E n \in 1..MaxExclFiles :
           /\ fs \in [1..n -> ExclKinds]
           /\ excludedBy \in [1..n -> ExclMatches]
    /\ globRuns = "asc"
    /\ ExecuteEntry
    /\ MemoryIdle

\* the first k patterns of a list, the first one written with backslashes
\* when bs
PatList(src, k, bs) == [i \in 1..k |-> Pat(src, i, bs /\ i = 1)]

\* the parameter records tried with getDescription
DescParams ==
    {[paths |-> PatList("paths", k, bs), include |-> i, exclude |-> e,
      useDefaultExcludes |-> u] :
        k \in 0..MaxPatterns, bs \in BOOLEAN,
        i \in {<<>>} \cup {<<PatList("include", j, FALSE)>> :
                                j \in 0..(MaxPatterns - 1)},
        e \in {<<>>} \cup {<<PatList("exclude", j, FALSE)>> :
                                j \in 0..MaxPatterns},
        u \in {<<>>, <<TRUE>>, <<FALSE>>}}

\* a tool object and a parameter record of any shape: getDescription and
\* execute may both be called on it
InitDesc ==
    /\ params \in DescParams
    /\ paramsKind \in {"invalid",
                       IF Len(SearchPatterns(params)) = 0 THEN "empty"
                       ELSE "ok"}
    /\ llxprtIgnorePatterns \in {<<>>, <<Pat("llxprt", 1, FALSE)>>}
    /\ respectGit = TRUE
    /\ respectLlxprt = TRUE
    /\ truncateMode = "warn"
    /\ maxFileCount = DEFAULT_MAX_FILE_COUNT
    /\ maxTokens = DEFAULT_MAX_TOKENS
    /\ \E n \in 0..MaxDescFiles : fs = [f \in 1..n |-> "small"]
    /\ excludedBy = [f \in DOMAIN fs |-> {}]
    /\ globRuns = "asc"
    /\ ExecuteEntry
    /\ MemoryIdle

\* execute is entered with a few files of arbitrary kinds, which glob
\* returns in the given orders
InitSmall(orders) ==
    /\ paramsKind \in ParamsKinds
    /\ params = IF paramsKind = "empty" THEN NoPatternParams ELSE PlainParams
    /\ llxprtIgnorePatterns = <<>>
    /\ respectGit = TRUE
    /\ respectLlxprt = TRUE
    /\ truncateMode \in Modes
    /\ maxFileCount \in MixedMaxItemsChoices
    /\ maxTokens \in MaxTokensChoices
    /\ \E n \in 0..MaxOrderFiles : fs \in [1..n -> Kinds]
    /\ excludedBy = [f \in DOMAIN fs |-> {}]
    /\ globRuns \in orders
    /\ ExecuteEntry
    /\ MemoryIdle

\* glob answers in any order, for one or two workspace directories
InitOrder == InitSmall(GlobOrders)

\* execute is entered with a signal that is not aborted yet
InitCancel == InitSmall({"asc"})

(***************************************************************************)
(* Helpers of execute.                                                     *)
(***************************************************************************)
\* mutant: the slice stops one element early
Slice_OneShort(seq, n) == SubSeq(seq, 1, Min(n - 1, Len(seq)))

\* Array.prototype.slice(0, n)
Slice(seq, n) == SubSeq(seq, 1, Min(n, Len(seq)))

\* the elements of an array
Range0(seq) == {seq[i] : i \in DOMAIN seq}

\* Array.prototype.includes
Includes(seq, x) == \E i \in 1..Len(seq) : seq[i] = x

\* the values of a Set, in insertion order, after adding those of seq
RECURSIVE AddAll(_, _)
AddAll(set, seq) ==
    IF seq = <<>> THEN set
    ELSE AddAll(IF Includes(set, Head(seq)) THEN set
                ELSE Append(set, Head(seq)),
                Tail(seq))

\* the array with x put before the first element greater than x
RECURSIVE Insert(_, _)
Insert(sorted, x) ==
    IF sorted = <<>> THEN <<x>>
    ELSE IF x <= Head(sorted) THEN <<x>> \o sorted
    ELSE <<Head(sorted)>> \o Insert(Tail(sorted), x)

\* mutant: the array is left in the order of the Set
Sort_Unsorted(seq) == seq

\* Array.prototype.sort() of paths
RECURSIVE Sort(_)
Sort(seq) == IF seq = <<>> THEN <<>> ELSE Insert(Sort(Tail(seq)), Head(seq))

\* glob never returns a path that one of its ignore patterns matches
GlobIgnores(ignore, f) ==
    /\ excludedBy[f] # {}
    /\ \E i \in DOMAIN ignore : PatSrc(ignore[i]) \in excludedBy[f]

\* what glob resolves to for each workspace directory: "twoDirs" is a
\* directory that holds every file but the first, and one that holds all
GlobResults(ignore) ==
    LET n == Len(fs)
        asc == [i \in 1..n |-> i]
        desc == [i \in 1..n |-> n + 1 - i]
        kept(seq) == SelectSeq(seq, LAMBDA f : ~GlobIgnores(ignore, f))
    IN  CASE globRuns = "asc" -> <<kept(asc)>>
          [] globRuns = "desc" -> <<kept(desc)>>
          [] OTHER -> <<kept(IF n = 0 THEN asc ELSE Tail(asc)), kept(desc)>>

\* the entries glob returns for the workspace directories, as a list: the
\* Set allEntries keeps each path once, in the order of its first insertion
GlobEntries ==
    LET results == GlobResults(EffectiveExcludes(params, llxprtIgnorePatterns))
    IN  IF Len(results) = 1 THEN AddAll(<<>>, results[1])
        ELSE AddAll(AddAll(<<>>, results[1]), results[2])

\* gitFilteredEntries
GitFilteredEntries(entries) ==
    IF respectGit
    THEN SelectSeq(entries, LAMBDA f : ~GitIgnores(f))
    ELSE entries

\* finalFilteredEntries
FinalFilteredEntries(entries) ==
    IF respectLlxprt
    THEN SelectSeq(GitFilteredEntries(entries), LAMBDA f : ~LlxprtIgnores(f))
    ELSE GitFilteredEntries(entries)

\* the entries the loop over entries counts as git ignored
IsGitSkipped(entries, f) ==
    /\ isPathWithinWorkspace(f)
    /\ respectGit
    /\ ~Includes(GitFilteredEntries(entries), f)

\* the entries the loop over entries counts as llxprt ignored
IsLlxprtSkipped(entries, f) ==
    /\ isPathWithinWorkspace(f)
    /\ ~IsGitSkipped(entries, f)
    /\ respectLlxprt
    /\ ~Includes(FinalFilteredEntries(entries), f)

\* mutant: one path outside the workspace makes execute consider no entry
IsConsidered_RefuseAll(entries, f) ==
    /\ \A g \in Range0(entries) : isPathWithinWorkspace(g)
    /\ ~IsGitSkipped(entries, f)
    /\ ~IsLlxprtSkipped(entries, f)

\* the entries added to filesToConsider
IsConsidered(entries, f) ==
    /\ isPathWithinWorkspace(f)
    /\ ~IsGitSkipped(entries, f)
    /\ ~IsLlxprtSkipped(entries, f)

\* the skip record of a path outside the workspace
SecuritySkip(f) == Skip("file", f, "Security: Glob library returned path outside workspace", f, 0)

\* one security skip record per entry outside the workspace, in entry order
SecuritySkips(entries) ==
    LET outside == SelectSeq(entries, LAMBDA f : ~isPathWithinWorkspace(f))
    IN  [i \in 1..Len(outside) |-> SecuritySkip(outside[i])]

\* the aggregate record of an ignore filter, when it dropped any file
CountSkips(n, reason) ==
    IF n > 0 THEN <<Skip("count", n, reason, 0, 0)>> ELSE <<>>

\* mutant: the step is rounded down instead of up
SampleStep_RoundedDown(total, max) ==
    IF max = 0 THEN total ELSE total \div max

\* Math.ceil(sortedFiles.length / maxFileCount); the quotient by 0 is
\* Infinity, and any step >= total ends the sampling loop after index 0
SampleStep(total, max) == IF max = 0 THEN total ELSE CeilDiv(total, max)

\* the sampling loop: i is the 0-based index, acc is sampledFiles
RECURSIVE SampleLoop(_, _, _, _, _)
SampleLoop(files, i, step, max, acc) ==
    IF i >= Len(files)
    THEN acc
    ELSE SampleLoop(files, i + step, step, max,
                    IF Len(acc) < max THEN Append(acc, files[i + 1]) ELSE acc)

\* mutant: the loop pushes without looking at sampledFiles.length
SampledFiles_NoGuard(files, max) ==
    SampleLoop(files, 0, SampleStep(Len(files), max), Len(files), <<>>)

\* sampledFiles
SampledFiles(files, max) ==
    SampleLoop(files, 0, SampleStep(Len(files), max), max, <<>>)

\* mutant: the list is cut one element late
TruncatedFiles_OffByOne(files, max) == SubSeq(files, 1, max + 1)

\* sortedFiles.length = maxFileCount
TruncatedFiles(files, max) == SubSeq(files, 1, max)

\* mutant: the count limit is never applied
OverCountLimit_Never(n, max) == FALSE

\* sortedFiles.length > maxFileCount
OverCountLimit(n, max) == n > max

\* mutant: a size in KB is compared with the limit in bytes
ExceedsSizeLimit_WrongUnit(size, limit) == size \div 1024 > limit

\* stats.size > fileSizeLimit
ExceedsSizeLimit(size, limit) == size > limit

\* mutant: the check looks at the running total alone
ExceedsTokenLimit_TotalOnly(total, cost, max) == total > max

\* totalTokens + contentTokens > maxTokens
ExceedsTokenLimit(total, cost, max) == total + cost > max

\* mutant: a prefix is added whatever space remains
HasReasonableSpace_Always(remaining) == TRUE

\* remainingTokens > 100: there is reasonable space for a prefix
HasReasonableSpace(remaining) == remaining > MinTruncateTokens

\* contentToAdd.substring(0, remainingTokens * 4), by its length
TruncatedLen(len, remaining) == Min(len, remaining * CharsPerToken)

\* the ephemeral 'tool-output-item-size-limit', left at its default
fileSizeLimit == DEFAULT_FILE_SIZE_LIMIT

\* the size skip reason: both sizes rounded to KB
SizeSkip(f, size, limit) ==
    Skip("file", f, "file size exceeds limit",
         RoundDiv(size, BytesPerKB), RoundDiv(limit, BytesPerKB))

\* the returnDisplay of the normal return
DisplayMessage(processed, tokens, skipped) ==
    [processed |-> Len(processed),
     tokens |-> IF Len(processed) > 0 THEN tokens ELSE 0,
     shownProcessed |-> Slice(processed, MaxShownProcessed),
     moreProcessed |-> IF Len(processed) <= MaxShownProcessed THEN 0
                       ELSE Len(processed) - MaxShownProcessed,
     skipped |-> Len(skipped),
     shownSkipped |-> Slice(skipped, MaxShownSkipped),
     moreSkipped |-> IF Len(skipped) > MaxShownSkipped
                     THEN Len(skipped) - MaxShownSkipped ELSE 0,
     matched |-> 0, limit |-> 0]

\* 'No files matching the criteria were found or all were skipped.'
NoFilesPart == Part(0, TRUE, 62, FALSE)

(***************************************************************************)
(* The actions: execute, one await point at a time.                        *)
(***************************************************************************)
\* getDescription(params): the lists it computes and what it quotes of them
GetDescription ==
    /\ description.kind = "none"
    /\ LET allPatterns == DescriptionPatterns(params)
           finalExclusionPatternsForDescription ==
               DescriptionExcludes(params, llxprtIgnorePatterns)
           llxprtPatternsInEffect ==
               SelectSeq(llxprtIgnorePatterns,
                         LAMBDA q :
                             Includes(finalExclusionPatternsForDescription, q))
       IN  description' =
               [kind |-> "text",
                patterns |-> allPatterns,
                excludes |-> finalExclusionPatternsForDescription,
                shownExcludes |-> Slice(finalExclusionPatternsForDescription,
                                        MaxShownExcludes),
                moreExcludes |-> Len(finalExclusionPatternsForDescription)
                                     > MaxShownExcludes,
                fromLlxprtignore |-> Len(llxprtPatternsInEffect)]
    /\ UNCHANGED <<inputs, abortedAt, written, memory>>

\* the caller aborts the signal while execute runs
Abort ==
    /\ pc # "done"
    /\ abortedAt = -1
    /\ abortedAt' = Cardinality(statted)
    /\ UNCHANGED <<inputs, description, written, memory>>

\* mutant: the validation result is ignored
ValidationError_Ignored == FALSE

\* validateParams(params) returns an error text
ValidationError == paramsKind = "invalid"

\* searchPatterns.length === 0
NoSearchPatterns == Len(SearchPatterns(params)) = 0

\* the arguments of the glob call
GlobArgs ==
    [searchPatterns |-> SearchPatterns(params),
     patterns |-> SlashPatterns(SearchPatterns(params)),
     ignore |-> EffectiveExcludes(params, llxprtIgnorePatterns)]

\* validateParams fails: the parameter-error result
ParamError ==
    /\ pc = "start"
    /\ ValidationError
    /\ result' = [NoResult EXCEPT !.kind = "paramError"]
    /\ pc' = "done"
    /\ UNCHANGED <<inputs, callers, memory, skippedFiles, sortedFiles,
                   candidates, idx, totalTokens, contentParts,
                   processedFilesRelativePaths, globbed, globArgs, statted,
                   readFiles>>

\* searchPatterns is empty
NoPatterns ==
    /\ pc = "start"
    /\ ~ValidationError
    /\ NoSearchPatterns
    /\ result' = [NoResult EXCEPT !.kind = "noPatterns"]
    /\ pc' = "done"
    /\ UNCHANGED <<inputs, callers, memory, skippedFiles, sortedFiles,
                   candidates, idx, totalTokens, contentParts,
                   processedFilesRelativePaths, globbed, globArgs, statted,
                   readFiles>>

\* glob (or a filter) throws, as glob does when the signal is aborted: the
\* file-search-error result
SearchError ==
    /\ pc = "start"
    /\ ~ValidationError
    /\ ~NoSearchPatterns
    /\ globbed' = TRUE
    /\ globArgs' = GlobArgs
    /\ result' = [NoResult EXCEPT !.kind = "searchError"]
    /\ pc' = "done"
    /\ UNCHANGED <<inputs, callers, memory, skippedFiles, sortedFiles,
                   candidates, idx, totalTokens, contentParts,
                   processedFilesRelativePaths, statted, readFiles>>

\* glob, the ignore filters, the workspace check and the sort
Discover ==
    /\ pc = "start"
    /\ ~ValidationError
    /\ ~NoSearchPatterns
    /\ abortedAt = -1
    /\ globbed' = TRUE
    /\ globArgs' = GlobArgs
    /\ \E entries \in {GlobEntries} :
           LET gitIgnoredCount ==
                   Cardinality({f \in Range0(entries) :
                                    IsGitSkipped(entries, f)})
               llxprtIgnoredCount ==
                   Cardinality({f \in Range0(entries) :
                                    IsLlxprtSkipped(entries, f)})
           IN  /\ skippedFiles' =
                      SecuritySkips(entries)
                      \o CountSkips(gitIgnoredCount, "git ignored")
                      \o CountSkips(llxprtIgnoredCount, "llxprt ignored")
               /\ sortedFiles' =
                      Sort(SelectSeq(entries,
                                     LAMBDA f : IsConsidered(entries, f)))
               /\ candidates' = sortedFiles'
    /\ pc' = "limit"
    /\ UNCHANGED <<inputs, callers, memory, idx, totalTokens, contentParts,
                   processedFilesRelativePaths, result, statted, readFiles>>

\* no more candidates than maxFileCount
WithinCountLimit ==
    /\ pc = "limit"
    /\ ~OverCountLimit(Len(sortedFiles), maxFileCount)
    /\ pc' = "loop"
    /\ UNCHANGED <<inputs, callers, memory, skippedFiles, sortedFiles,
                   candidates, idx, totalTokens, contentParts,
                   processedFilesRelativePaths, result, globbed, globArgs,
                   statted, readFiles>>

\* too many candidates, warn mode: return the warning at once
CountLimitWarn ==
    /\ pc = "limit"
    /\ OverCountLimit(Len(sortedFiles), maxFileCount)
    /\ truncateMode = "warn"
    /\ result' = [kind |-> "countLimit", llmContent |-> <<>>,
                  returnDisplay |->
                      [NoDisplay EXCEPT !.matched = Len(sortedFiles),
                                        !.limit = maxFileCount]]
    /\ pc' = "done"
    /\ UNCHANGED <<inputs, callers, memory, skippedFiles, sortedFiles,
                   candidates, idx, totalTokens, contentParts,
                   processedFilesRelativePaths, globbed, globArgs, statted,
                   readFiles>>

\* too many candidates, sample mode
CountLimitSample ==
    /\ pc = "limit"
    /\ OverCountLimit(Len(sortedFiles), maxFileCount)
    /\ truncateMode = "sample"
    /\ LET sampledFiles == SampledFiles(sortedFiles, maxFileCount)
       IN  /\ sortedFiles' = sampledFiles
           /\ skippedFiles' = Append(skippedFiles,
                  Skip("count", Len(sortedFiles) - Len(sampledFiles),
                       "sampling to stay within file limit", maxFileCount, 0))
    /\ pc' = "loop"
    /\ UNCHANGED <<inputs, callers, memory, candidates, idx, totalTokens,
                   contentParts, processedFilesRelativePaths, result,
                   globbed, globArgs, statted, readFiles>>

\* too many candidates, truncate mode
CountLimitTruncate ==
    /\ pc = "limit"
    /\ OverCountLimit(Len(sortedFiles), maxFileCount)
    /\ truncateMode = "truncate"
    /\ sortedFiles' = TruncatedFiles(sortedFiles, maxFileCount)
    /\ skippedFiles' = Append(skippedFiles,
           Skip("count", Len(sortedFiles) - maxFileCount,
                "truncated to stay within file limit", maxFileCount, 0))
    /\ pc' = "loop"
    /\ UNCHANGED <<inputs, callers, memory, candidates, idx, totalTokens,
                   contentParts, processedFilesRelativePaths, result,
                   globbed, globArgs, statted, readFiles>>


(***************************************************************************)
(* The loop over sortedFiles: one action per outcome of an iteration.      *)
(***************************************************************************)
InLoop == pc = "loop" /\ idx <= Len(sortedFiles)

\* filePath of the current iteration
cur == sortedFiles[idx]

\* the iteration passes the size check
PassesStat(f) ==
    /\ ~StatFails(f)
    /\ ~ExceedsSizeLimit(StatSize(f), fileSizeLimit)

\* the iteration passes the size check and the asset check
PassesAssetCheck(f) ==
    /\ PassesStat(f)
    /\ IsAsset(f) => RequestedExplicitly(f)

\* the iteration reaches the token check with a string llmContent
ReadsText(f) == PassesAssetCheck(f) /\ ~ReadFails(f) /\ ~IsAsset(f)

\* the iteration reaches the token check with an image or PDF part
ReadsAsset(f) == PassesAssetCheck(f) /\ ~ReadFails(f) /\ IsAsset(f)

\* estimateTokens(contentToAdd)
ContentTokens(f) == estimateTokens(ContentToAddLen(f))

\* stat() rejects: skip the file
StatError ==
    /\ InLoop
    /\ StatFails(cur)
    /\ statted' = statted \cup {cur}
    /\ skippedFiles' = Append(skippedFiles, Skip("file", cur, "stat error", 0, 0))
    /\ idx' = idx + 1
    /\ UNCHANGED <<inputs, callers, memory, pc, sortedFiles, candidates,
                   totalTokens, contentParts, processedFilesRelativePaths,
                   result, globbed, globArgs, readFiles>>

\* the file is larger than the per-file size limit: skip the file
FileTooLarge ==
    /\ InLoop
    /\ ~StatFails(cur)
    /\ ExceedsSizeLimit(StatSize(cur), fileSizeLimit)
    /\ statted' = statted \cup {cur}
    /\ skippedFiles' = Append(skippedFiles,
                              SizeSkip(cur, StatSize(cur), fileSizeLimit))
    /\ idx' = idx + 1
    /\ UNCHANGED <<inputs, callers, memory, pc, sortedFiles, candidates,
                   totalTokens, contentParts, processedFilesRelativePaths,
                   result, globbed, globArgs, readFiles>>

\* an image or PDF that no input pattern names: skip the file
AssetNotRequested ==
    /\ InLoop
    /\ PassesStat(cur)
    /\ IsAsset(cur) /\ ~RequestedExplicitly(cur)
    /\ statted' = statted \cup {cur}
    /\ skippedFiles' = Append(skippedFiles,
           Skip("file", cur,
                "asset file (image/pdf) was not explicitly requested by name or extension",
                0, 0))
    /\ idx' = idx + 1
    /\ UNCHANGED <<inputs, callers, memory, pc, sortedFiles, candidates,
                   totalTokens, contentParts, processedFilesRelativePaths,
                   result, globbed, globArgs, readFiles>>

\* mutant: a read error leaves the loop
ReadError_Aborts ==
    /\ pc = "loop" /\ idx <= Len(sortedFiles)
    /\ PassesAssetCheck(sortedFiles[idx])
    /\ ReadFails(sortedFiles[idx])
    /\ statted' = statted \cup {sortedFiles[idx]}
    /\ readFiles' = readFiles \cup {sortedFiles[idx]}
    /\ skippedFiles' = Append(skippedFiles,
                              Skip("file", sortedFiles[idx], "Read error", 0, 0))
    /\ pc' = "summary"
    /\ UNCHANGED <<inputs, callers, memory, idx, sortedFiles, candidates,
                   totalTokens, contentParts, processedFilesRelativePaths,
                   result, globbed, globArgs>>

\* processSingleFileContent reports an error: skip the file
ReadError ==
    /\ InLoop
    /\ PassesAssetCheck(cur)
    /\ ReadFails(cur)
    /\ statted' = statted \cup {cur}
    /\ readFiles' = readFiles \cup {cur}
    /\ skippedFiles' = Append(skippedFiles, Skip("file", cur, "Read error", 0, 0))
    /\ idx' = idx + 1
    /\ UNCHANGED <<inputs, callers, memory, pc, sortedFiles, candidates,
                   totalTokens, contentParts, processedFilesRelativePaths,
                   result, globbed, globArgs>>

\* a text file that fits the token budget: add it
AddText ==
    /\ InLoop
    /\ ReadsText(cur)
    /\ ~ExceedsTokenLimit(totalTokens, ContentTokens(cur), maxTokens)
    /\ statted' = statted \cup {cur}
    /\ readFiles' = readFiles \cup {cur}
    /\ totalTokens' = totalTokens + ContentTokens(cur)
    /\ contentParts' = Append(contentParts,
                              Part(cur, TRUE, ContentToAddLen(cur), FALSE))
    /\ processedFilesRelativePaths' = Append(processedFilesRelativePaths, cur)
    /\ idx' = idx + 1
    /\ UNCHANGED <<inputs, callers, memory, pc, skippedFiles, sortedFiles,
                   candidates, result, globbed, globArgs>>

\* a text file over the token budget, warn mode: stop
TextOverflowWarn ==
    /\ InLoop
    /\ ReadsText(cur)
    /\ ExceedsTokenLimit(totalTokens, ContentTokens(cur), maxTokens)
    /\ truncateMode = "warn"
    /\ statted' = statted \cup {cur}
    /\ readFiles' = readFiles \cup {cur}
    /\ skippedFiles' = Append(skippedFiles,
           Skip("remaining",
                Len(sortedFiles) - Len(processedFilesRelativePaths),
                "would exceed token limit", maxTokens, 0))
    /\ pc' = "summary"
    /\ UNCHANGED <<inputs, callers, memory, sortedFiles, candidates, idx,
                   totalTokens, contentParts, processedFilesRelativePaths,
                   result, globbed, globArgs>>

\* a text file over the token budget, truncate mode: add a prefix when
\* there is reasonable space, and stop either way
TextOverflowTruncate ==
    /\ InLoop
    /\ ReadsText(cur)
    /\ ExceedsTokenLimit(totalTokens, ContentTokens(cur), maxTokens)
    /\ truncateMode = "truncate"
    /\ statted' = statted \cup {cur}
    /\ readFiles' = readFiles \cup {cur}
    /\ LET remainingTokens == maxTokens - totalTokens
       IN  IF HasReasonableSpace(remainingTokens)
           THEN /\ contentParts' = Append(contentParts,
                       Part(cur, TRUE,
                            TruncatedLen(ContentToAddLen(cur), remainingTokens),
                            TRUE))
                /\ processedFilesRelativePaths' =
                       Append(processedFilesRelativePaths, cur)
                /\ skippedFiles' = Append(skippedFiles,
                       Skip("file", cur, "content truncated to fit token limit",
                            0, 0))
           ELSE UNCHANGED <<contentParts, processedFilesRelativePaths,
                            skippedFiles>>
    /\ pc' = "summary"
    /\ UNCHANGED <<inputs, callers, memory, sortedFiles, candidates, idx,
                   totalTokens, result, globbed, globArgs>>

\* mutant: sample mode leaves the loop instead of going on
TextOverflowSample_Break ==
    /\ pc = "loop" /\ idx <= Len(sortedFiles)
    /\ ReadsText(sortedFiles[idx])
    /\ ExceedsTokenLimit(totalTokens, ContentTokens(sortedFiles[idx]), maxTokens)
    /\ truncateMode = "sample"
    /\ statted' = statted \cup {sortedFiles[idx]}
    /\ readFiles' = readFiles \cup {sortedFiles[idx]}
    /\ skippedFiles' = Append(skippedFiles,
           Skip("file", sortedFiles[idx], "skipped to stay within token limit",
                0, 0))
    /\ pc' = "summary"
    /\ UNCHANGED <<inputs, callers, memory, sortedFiles, candidates, idx,
                   totalTokens, contentParts, processedFilesRelativePaths,
                   result, globbed, globArgs>>

\* a text file over the token budget, sample mode: skip it and go on
TextOverflowSample ==
    /\ InLoop
    /\ ReadsText(cur)
    /\ ExceedsTokenLimit(totalTokens, ContentTokens(cur), maxTokens)
    /\ truncateMode = "sample"
    /\ statted' = statted \cup {cur}
    /\ readFiles' = readFiles \cup {cur}
    /\ skippedFiles' = Append(skippedFiles,
           Skip("file", cur, "skipped to stay within token limit", 0, 0))
    /\ idx' = idx + 1
    /\ UNCHANGED <<inputs, callers, memory, pc, sortedFiles, candidates,
                   totalTokens, contentParts, processedFilesRelativePaths,
                   result, globbed, globArgs>>

\* an image or PDF that fits the token budget: add its part
AddAsset ==
    /\ InLoop
    /\ ReadsAsset(cur)
    /\ ~ExceedsTokenLimit(totalTokens, AssetTokens, maxTokens)
    /\ statted' = statted \cup {cur}
    /\ readFiles' = readFiles \cup {cur}
    /\ totalTokens' = totalTokens + AssetTokens
    /\ contentParts' = Append(contentParts, Part(cur, FALSE, 0, FALSE))
    /\ processedFilesRelativePaths' = Append(processedFilesRelativePaths, cur)
    /\ idx' = idx + 1
    /\ UNCHANGED <<inputs, callers, memory, pc, skippedFiles, sortedFiles,
                   candidates, result, globbed, globArgs>>

\* an image or PDF over the token budget: skip it and go on, in every mode
AssetOverflow ==
    /\ InLoop
    /\ ReadsAsset(cur)
    /\ ExceedsTokenLimit(totalTokens, AssetTokens, maxTokens)
    /\ statted' = statted \cup {cur}
    /\ readFiles' = readFiles \cup {cur}
    /\ skippedFiles' = Append(skippedFiles,
           Skip("file", cur, "would exceed token limit (non-text content)",
                0, 0))
    /\ idx' = idx + 1
    /\ UNCHANGED <<inputs, callers, memory, pc, sortedFiles, candidates,
                   totalTokens, contentParts, processedFilesRelativePaths,
                   result, globbed, globArgs>>

\* after the loop: build returnDisplay and return
Finish ==
    /\ \/ pc = "summary"
       \/ pc = "loop" /\ idx > Len(sortedFiles)
    /\ result' = [kind |-> "ok",
                  llmContent |-> IF Len(contentParts) = 0
                                 THEN <<NoFilesPart>>
                                 ELSE contentParts,
                  returnDisplay |->
                      DisplayMessage(processedFilesRelativePaths, totalTokens,
                                     skippedFiles)]
    /\ pc' = "done"
    /\ UNCHANGED <<inputs, callers, memory, skippedFiles, sortedFiles,
                   candidates, idx, totalTokens, contentParts,
                   processedFilesRelativePaths, globbed, globArgs, statted,
                   readFiles>>

Next ==
    \/ ParamError
    \/ NoPatterns
    \/ SearchError
    \/ Discover
    \/ WithinCountLimit
    \/ CountLimitWarn
    \/ CountLimitSample
    \/ CountLimitTruncate
    \/ StatError
    \/ FileTooLarge
    \/ AssetNotRequested
    \/ ReadError
    \/ AddText
    \/ TextOverflowWarn
    \/ TextOverflowTruncate
    \/ TextOverflowSample
    \/ AddAsset
    \/ AssetOverflow
    \/ Finish

Spec == Init /\ [][Next]_vars

\* execute on text files that the exclusion sources match or not
NextExcl == SearchError \/ Discover \/ WithinCountLimit \/ AddText \/ Finish

SpecExcl == InitExcl /\ [][NextExcl]_vars

SpecOrder == InitOrder /\ [][Next]_vars

\* execute, with a caller that may abort the signal at any moment
NextCancel == Abort \/ Next

SpecCancel == InitCancel /\ [][NextCancel]_vars

\* getDescription at any moment of an execute on text files
NextDesc ==
    \/ GetDescription
    \/ ParamError
    \/ NoPatterns
    \/ SearchError
    \/ Discover
    \/ WithinCountLimit
    \/ AddText
    \/ Finish

SpecDesc == InitDesc /\ [][NextDesc]_vars

Done == pc = "done"

(***************************************************************************)
(* Memory discovery (packages/core/src/utils/memoryDiscovery.ts).          *)
(*                                                                         *)
(* A path is the sequence of its components, <<>> being the filesystem     *)
(* root.  The directory tree is fixed: /u holds /u/h, which holds the home  *)
(*  directory /u/h/k (with the global configuration directory             *)
(* /u/h/k/.llxprt), and /u/p, which holds /u/p/q, which holds /u/p/q/r     *)
(* and /u/p/q/s.  The component "ln"                                       *)
(* is a symbolic link to the directory that holds it, so a path with "ln"  *)
(* in it is a second spelling of the path without it.                      *)
(***************************************************************************)
\* the component names, in the order of their strings
NameOrder ==
    <<".llxprt", "AGENTS.md", "LLXPRT.md", "ext", "h", "k", "ln", "p", "q",
      "r", "s", "u">>

Rank(c) == CHOOSE i \in DOMAIN NameOrder : NameOrder[i] = c

\* a < b for two path strings, as Array.prototype.sort() compares them
RECURSIVE PathLess(_, _)
PathLess(a, b) ==
    IF a = <<>> THEN b # <<>>
    ELSE IF b = <<>> THEN FALSE
    ELSE IF Head(a) = Head(b) THEN PathLess(Tail(a), Tail(b))
    ELSE Rank(Head(a)) < Rank(Head(b))

\* path.dirname
dirname(path) ==
    IF path = <<>> THEN <<>> ELSE SubSeq(path, 1, Len(path) - 1)

LLXPRT_CONFIG_DIR == ".llxprt"
\* homedir()
HomeDir == <<"u", "h", "k">>
\* path.join(resolvedHome, LLXPRT_CONFIG_DIR)
GlobalDir == HomeDir \o <<LLXPRT_CONFIG_DIR>>
ProjectDir == <<"u", "p">>
WorkDir == <<"u", "p", "q">>
SubDir == <<"u", "p", "q", "r">>
OtherSubDir == <<"u", "p", "q", "s">>
\* the directories of the tree, the filesystem root left out
TreeDirs == {<<"u">>, dirname(HomeDir), HomeDir, GlobalDir, ProjectDir,
             WorkDir, SubDir, OtherSubDir}
\* a context file that an extension brings
ExtensionFile == <<"u", "ext", "LLXPRT.md">>

\* the files that may exist and be readable
CandidateFiles ==
    {d \o <<"LLXPRT.md">> : d \in TreeDirs}
    \cup {d \o <<"AGENTS.md">> : d \in {GlobalDir, WorkDir}}

\* the file a path resolves to, through its symbolic links
Canonical(path) == SelectSeq(path, LAMBDA c : c # "ln")

\* fs.access(path, R_OK) resolves
Readable(path) == Canonical(path) \in readable

\* findProjectRoot: <<dir>> for the nearest directory, from startDir up,
\* that holds a .git directory, <<>> for null
RECURSIVE findProjectRoot(_)
findProjectRoot(currentDir) ==
    IF Canonical(currentDir) \in gitDirs THEN <<currentDir>>
    ELSE IF dirname(currentDir) = currentDir THEN <<>>
    ELSE findProjectRoot(dirname(currentDir))

\* mutant: the scan stops at the project root itself
UltimateStopDir_AtProjectRoot(resolvedCwd) ==
    LET projectRoot == findProjectRoot(resolvedCwd)
    IN  IF projectRoot # <<>> THEN projectRoot[1]
        ELSE dirname(HomeDir)

\* mutant: without a project root the scan stops at the home directory
UltimateStopDir_AtHome(resolvedCwd) ==
    LET projectRoot == findProjectRoot(resolvedCwd)
    IN  IF projectRoot # <<>> THEN dirname(projectRoot[1])
        ELSE HomeDir

\* ultimateStopDir
UltimateStopDir(resolvedCwd) ==
    LET projectRoot == findProjectRoot(resolvedCwd)
    IN  IF projectRoot # <<>> THEN dirname(projectRoot[1])
        ELSE dirname(HomeDir)

\* the upward scan from currentDir on: upwardPaths, given its value so far
RECURSIVE UpwardScan(_, _, _, _)
UpwardScan(currentDir, contextFilename, ultimateStopDir, upwardPaths) ==
    IF currentDir = dirname(currentDir) THEN upwardPaths
    ELSE IF currentDir = GlobalDir THEN upwardPaths
    ELSE LET potentialPath == currentDir \o <<contextFilename>>
             found ==
                 IF /\ Readable(potentialPath)
                    /\ potentialPath # GlobalDir \o <<contextFilename>>
                 THEN <<potentialPath>> \o upwardPaths
                 ELSE upwardPaths
         IN  IF currentDir = ultimateStopDir THEN found
             ELSE UpwardScan(dirname(currentDir), contextFilename,
                             ultimateStopDir, found)

\* a is b or an ancestor of b
IsPrefix(a, b) == Len(a) <= Len(b) /\ SubSeq(b, 1, Len(a)) = a

\* the elements of a set of directories in breadth-first order: by depth,
\* the directories of one depth in the order the directory listing gives
\* them, taken here to be the descending one
RECURSIVE BreadthFirst(_)
BreadthFirst(dirs) ==
    IF dirs = {} THEN <<>>
    ELSE LET first ==
                 CHOOSE d \in dirs :
                     \A e \in dirs \ {d} :
                         \/ Len(d) < Len(e)
                         \/ Len(d) = Len(e) /\ PathLess(e, d)
         IN  <<first>> \o BreadthFirst(dirs \ {first})

\* bfsFileSearch(rootDir, {fileName}): the readable files of that name in
\* rootDir and below, in the order the directories are visited
bfsFileSearch(rootDir, fileName) ==
    LET below == {d \in TreeDirs : IsPrefix(Canonical(rootDir), d)}
        visited == BreadthFirst(below)
        spelled(d) ==
            rootDir \o SubSeq(d, Len(Canonical(rootDir)) + 1, Len(d))
        hits == SelectSeq(visited, LAMBDA d : d \o <<fileName>> \in readable)
    IN  [i \in 1..Len(hits) |-> spelled(hits[i]) \o <<fileName>>]

\* the array with path put before the first element greater than it
RECURSIVE InsertPath(_, _)
InsertPath(sorted, path) ==
    IF sorted = <<>> THEN <<path>>
    ELSE IF PathLess(Head(sorted), path)
    THEN <<Head(sorted)>> \o InsertPath(Tail(sorted), path)
    ELSE <<path>> \o sorted

\* mutant: the downward paths are left in the order of the search
SortPaths_Unsorted(seq) == seq

\* downwardPaths.sort()
RECURSIVE SortPaths(_)
SortPaths(seq) ==
    IF seq = <<>> THEN <<>> ELSE InsertPath(SortPaths(Tail(seq)), Head(seq))

\* one iteration of the loop over contextFilenames: allPaths after it
PathsForFilename(allPaths, dir, contextFilename) ==
    LET globalMemoryPath == GlobalDir \o <<contextFilename>>
        withGlobal == IF Readable(globalMemoryPath)
                      THEN AddAll(allPaths, <<globalMemoryPath>>)
                      ELSE allPaths
        upwardPaths ==
            UpwardScan(dir, contextFilename, UltimateStopDir(dir), <<>>)
        downwardPaths == SortPaths(bfsFileSearch(dir, contextFilename))
    IN  AddAll(AddAll(withGlobal, upwardPaths), downwardPaths)

\* the loop over contextFilenames: allPaths after the filenames left
RECURSIVE PathsForFilenames(_, _, _)
PathsForFilenames(allPaths, dir, filenames) ==
    IF filenames = <<>> THEN allPaths
    ELSE PathsForFilenames(PathsForFilename(allPaths, dir, Head(filenames)),
                           dir, Tail(filenames))

\* getContextFilePathsInternalForEachDir(dir): finalPaths
getContextFilePathsInternalForEachDir(dir) ==
    AddAll(PathsForFilenames(<<>>, dir, contextFilenames),
           extensionContextFilePaths)

\* the variables of the read-many-files tool
tool == <<inputs, callers, written>>

\* the read-many-files tool has not been called
ToolIdle ==
    /\ paramsKind = "ok"
    /\ respectGit = TRUE
    /\ respectLlxprt = TRUE
    /\ truncateMode = "warn"
    /\ maxFileCount = DEFAULT_MAX_FILE_COUNT
    /\ maxTokens = DEFAULT_MAX_TOKENS
    /\ fs = <<>>
    /\ params = PlainParams
    /\ llxprtIgnorePatterns = <<>>
    /\ excludedBy = <<>>
    /\ globRuns = "asc"
    /\ ExecuteEntry

\* getContextFilePathsInternal is entered: dirs holds the include
\* directories and the working directory
InitMem ==
    /\ readable \in {S \in SUBSET CandidateFiles :
                        Cardinality(S) <= MaxContextFiles}
    /\ gitDirs \in {{}, {ProjectDir}, {WorkDir}}
    /\ currentWorkingDirectory \in {WorkDir, HomeDir}
    /\ includeDirectoriesToReadContext \in
           {<<>>, <<SubDir>>, <<WorkDir \o <<"ln">>>>}
    /\ contextFilenames \in {<<"LLXPRT.md">>, <<"LLXPRT.md", "AGENTS.md">>}
    /\ extensionContextFilePaths \in
           {<<>>, <<ExtensionFile>>, <<WorkDir \o <<"LLXPRT.md">>>>,
            <<WorkDir \o <<"ln", "LLXPRT.md">>>>}
    /\ mpc = "scan"
    /\ dirsLeft = AddAll(<<>>, includeDirectoriesToReadContext
                                \o <<currentWorkingDirectory>>)
    /\ paths = <<>>
    /\ filePaths = <<>>
    /\ LoadingIdle
    /\ StartupIdle
    /\ ToolIdle

\* one iteration of the loop over dirs
ScanDir ==
    /\ mpc = "scan"
    /\ dirsLeft # <<>>
    /\ paths' = paths \o getContextFilePathsInternalForEachDir(Head(dirsLeft))
    /\ dirsLeft' = Tail(dirsLeft)
    /\ UNCHANGED <<memoryInputs, mpc, filePaths, loading, startup, tool>>

\* return Array.from(new Set(paths))
ReturnPaths ==
    /\ mpc = "scan"
    /\ dirsLeft = <<>>
    /\ filePaths' = AddAll(<<>>, paths)
    /\ mpc' = "paths"
    /\ UNCHANGED <<memoryInputs, dirsLeft, paths, loading, startup, tool>>

NextMem == ScanDir \/ ReturnPaths

\* getContextFilePathsInternal is entered with one directory, one context
\* filename and no extension path
InitUp ==
    /\ readable \in {S \in SUBSET CandidateFiles :
                        Cardinality(S) <= MaxContextFiles}
    /\ gitDirs \in {{}, {ProjectDir}, {WorkDir}, {HomeDir}}
    /\ currentWorkingDirectory \in {WorkDir, SubDir, HomeDir, GlobalDir}
    /\ includeDirectoriesToReadContext = <<>>
    /\ contextFilenames = <<"LLXPRT.md">>
    /\ extensionContextFilePaths = <<>>
    /\ mpc = "scan"
    /\ dirsLeft = <<currentWorkingDirectory>>
    /\ paths = <<>>
    /\ filePaths = <<>>
    /\ LoadingIdle
    /\ StartupIdle
    /\ ToolIdle

SpecUp == InitUp /\ [][NextMem]_vars

SpecMem == InitMem /\ [][NextMem]_vars


(***************************************************************************)
(* readContextFiles, concatenateInstructions and the return of             *)
(* loadServerHierarchicalMemory.  The content of a file is known by its    *)
(* length and the length of what trim() leaves of it; null is <<>>.        *)
(***************************************************************************)
\* what reading a context file and expanding its imports gives: text, only
\* white space, a rejected fs.readFile or a rejected processImports
ContentKinds == {"text", "blank", "readError", "importError"}

\* processedResult.content of a file that was read and expanded
Content(kind) ==
    IF kind = "text" THEN [len |-> 9, trimmed |-> 5]
    ELSE [len |-> 2, trimmed |-> 0]

\* path.relative(from, to)
relative(from, to) ==
    LET common == {k \in 0..Min(Len(from), Len(to)) :
                       SubSeq(from, 1, k) = SubSeq(to, 1, k)}
        k == CHOOSE n \in common : \A m \in common : m <= n
    IN  [i \in 1..(Len(from) - k) |-> ".."] \o SubSeq(to, k + 1, Len(to))

\* concatenateInstructions: the blocks, which '\n\n' joins, each known by
\* the display path of its two markers and the length of its content
concatenateInstructions(instructionContents, cwdForDisplay) ==
    LET withContent ==
            SelectSeq(instructionContents, LAMBDA item : item.content # <<>>)
        nonEmpty ==
            SelectSeq(withContent, LAMBDA item : item.content[1].trimmed # 0)
    IN  [i \in DOMAIN nonEmpty |->
            [displayPath |-> relative(cwdForDisplay, nonEmpty[i].filePath),
             len |-> nonEmpty[i].content[1].trimmed]]

\* loadServerHierarchicalMemory is entered in /u/p/q, with .git in /u/p
InitLoad ==
    /\ readable \in {S \in SUBSET {GlobalDir \o <<"LLXPRT.md">>,
                                   ProjectDir \o <<"LLXPRT.md">>,
                                   WorkDir \o <<"LLXPRT.md">>,
                                   SubDir \o <<"LLXPRT.md">>,
                                   OtherSubDir \o <<"LLXPRT.md">>} :
                        Cardinality(S) <= MaxLoadFiles}
    /\ gitDirs = {ProjectDir}
    /\ currentWorkingDirectory = WorkDir
    /\ includeDirectoriesToReadContext = <<>>
    /\ contextFilenames = <<"LLXPRT.md">>
    /\ extensionContextFilePaths \in {<<>>, <<ExtensionFile>>}
    /\ mpc = "scan"
    /\ dirsLeft = <<currentWorkingDirectory>>
    /\ paths = <<>>
    /\ filePaths = <<>>
    /\ fileKinds \in [readable \cup Range0(extensionContextFilePaths)
                          -> ContentKinds]
    /\ contentsWithPaths = <<>>
    /\ loaded = NoLoaded
    /\ importsOf = <<>>
    /\ importStack = <<>>
    /\ importLog = <<>>
    /\ StartupIdle
    /\ ToolIdle

\* one iteration of the loop of readContextFiles: the file is read and
\* its imports are expanded
ReadContextFile ==
    /\ mpc = "paths"
    /\ Len(contentsWithPaths) < Len(filePaths)
    /\ LET filePath == filePaths[Len(contentsWithPaths) + 1]
           kind == fileKinds[Canonical(filePath)]
       IN  /\ kind \in {"text", "blank"}
           /\ contentsWithPaths' =
                  Append(contentsWithPaths,
                         [filePath |-> filePath, content |-> <<Content(kind)>>])
    /\ UNCHANGED <<memoryInputs, mpc, dirsLeft, paths, filePaths, fileKinds,
                   loaded, importsOf, importStack, importLog, startup, tool>>

\* mutant: the rejection leaves readContextFiles
ReadContextFileFails_Throws ==
    /\ mpc = "paths"
    /\ Len(contentsWithPaths) < Len(filePaths)
    /\ fileKinds[Canonical(filePaths[Len(contentsWithPaths) + 1])]
           \in {"readError", "importError"}
    /\ mpc' = "threw"
    /\ UNCHANGED <<memoryInputs, dirsLeft, paths, filePaths, loading, startup,
                   tool>>

\* one iteration of the loop of readContextFiles: fs.readFile or
\* processImports rejects, and the catch records the file with null
ReadContextFileFails ==
    /\ mpc = "paths"
    /\ Len(contentsWithPaths) < Len(filePaths)
    /\ LET filePath == filePaths[Len(contentsWithPaths) + 1]
       IN  /\ fileKinds[Canonical(filePath)] \in {"readError", "importError"}
           /\ contentsWithPaths' =
                  Append(contentsWithPaths,
                         [filePath |-> filePath, content |-> <<>>])
    /\ UNCHANGED <<memoryInputs, mpc, dirsLeft, paths, filePaths, fileKinds,
                   loaded, importsOf, importStack, importLog, startup, tool>>

\* the return of loadServerHierarchicalMemory: at once when no path was
\* found, and else after readContextFiles and concatenateInstructions
ReturnMemory ==
    /\ mpc = "paths"
    /\ Len(contentsWithPaths) = Len(filePaths)
    /\ loaded' =
           IF Len(filePaths) = 0
           THEN [memoryContent |-> <<>>, fileCount |-> 0]
           ELSE [memoryContent |->
                     concatenateInstructions(contentsWithPaths,
                                             currentWorkingDirectory),
                 fileCount |-> Len(contentsWithPaths)]
    /\ mpc' = "loaded"
    /\ UNCHANGED <<memoryInputs, dirsLeft, paths, filePaths, fileKinds,
                   contentsWithPaths, importsOf, importStack, importLog,
                   startup, tool>>

SpecLoad ==
    InitLoad /\ [][ScanDir \/ ReturnPaths \/ ReadContextFile
                   \/ ReadContextFileFails \/ ReturnMemory]_vars

(***************************************************************************)
(* Import expansion (processImports, memoryImportProcessor.ts), as         *)
(* section 4.5 of the specification describes it: the content of a file    *)
(* names the files it imports; expansion recurses into each of them,       *)
(* stops with a diagnostic at a file that is already being expanded, and   *)
(* stops at the depth cap.  The files being expanded are those of the      *)
(* calls in progress: the visited set is passed by value down the          *)
(* recursion.                                                              *)
(***************************************************************************)
\* processImports is entered for the context file "a"
InitImp ==
    /\ importsOf \in
           [{"a", "b", "c"} ->
               {q \in UNION {[1..n -> {"a", "b", "c"}] : n \in 0..2} :
                    \A i, j \in DOMAIN q : i # j => q[i] # q[j]}]
    /\ importStack = <<[file |-> "a", next |-> 1]>>
    /\ importLog = <<>>
    /\ fileKinds = <<>>
    /\ contentsWithPaths = <<>>
    /\ loaded = NoLoaded
    /\ readable = {}
    /\ gitDirs = {}
    /\ currentWorkingDirectory = <<>>
    /\ includeDirectoriesToReadContext = <<>>
    /\ contextFilenames = <<>>
    /\ extensionContextFilePaths = <<>>
    /\ mpc = "idle"
    /\ dirsLeft = <<>>
    /\ paths = <<>>
    /\ filePaths = <<>>
    /\ StartupIdle
    /\ ToolIdle

\* the next import directive names a file that is not being expanded, and
\* the depth cap allows it: recurse into it
ExpandImport ==
    /\ importStack # <<>>
    /\ LET top == importStack[Len(importStack)]
       IN  /\ top.next <= Len(importsOf[top.file])
           /\ LET target == importsOf[top.file][top.next]
              IN  /\ \A i \in DOMAIN importStack : importStack[i].file # target
                  /\ Len(importStack) <= MaxImportDepth
                  /\ importStack' =
                         Append([importStack EXCEPT ![Len(importStack)].next = @ + 1],
                                [file |-> target, next |-> 1])
                  /\ importLog' =
                         Append(importLog, [kind |-> "expand", file |-> target])
    /\ UNCHANGED <<memoryInputs, mpc, dirsLeft, paths, filePaths, fileKinds,
                   contentsWithPaths, loaded, importsOf, startup, tool>>

\* mutant: a file that is being expanded is treated like any other
ImportCycle_Recurses ==
    /\ importStack # <<>>
    /\ LET top == importStack[Len(importStack)]
       IN  /\ top.next <= Len(importsOf[top.file])
           /\ LET target == importsOf[top.file][top.next]
                  advanced ==
                      [importStack EXCEPT ![Len(importStack)].next = @ + 1]
              IN  /\ \E i \in DOMAIN importStack : importStack[i].file = target
                  /\ IF Len(importStack) <= MaxImportDepth
                     THEN /\ importStack' =
                                 Append(advanced, [file |-> target, next |-> 1])
                          /\ importLog' =
                                 Append(importLog,
                                        [kind |-> "expand", file |-> target])
                     ELSE /\ importStack' = advanced
                          /\ importLog' =
                                 Append(importLog,
                                        [kind |-> "depth", file |-> target])
    /\ UNCHANGED <<memoryInputs, mpc, dirsLeft, paths, filePaths, fileKinds,
                   contentsWithPaths, loaded, importsOf, startup, tool>>

\* the next import directive names a file that is being expanded: a cycle
\* diagnostic, and no recursion
ImportCycle ==
    /\ importStack # <<>>
    /\ LET top == importStack[Len(importStack)]
       IN  /\ top.next <= Len(importsOf[top.file])
           /\ LET target == importsOf[top.file][top.next]
              IN  /\ \E i \in DOMAIN importStack : importStack[i].file = target
                  /\ importStack' =
                         [importStack EXCEPT ![Len(importStack)].next = @ + 1]
                  /\ importLog' =
                         Append(importLog, [kind |-> "cycle", file |-> target])
    /\ UNCHANGED <<memoryInputs, mpc, dirsLeft, paths, filePaths, fileKinds,
                   contentsWithPaths, loaded, importsOf, startup, tool>>

\* the next import directive names a file below the depth cap: a depth
\* diagnostic, and no recursion
ImportTooDeep ==
    /\ importStack # <<>>
    /\ LET top == importStack[Len(importStack)]
       IN  /\ top.next <= Len(importsOf[top.file])
           /\ LET target == importsOf[top.file][top.next]
              IN  /\ \A i \in DOMAIN importStack : importStack[i].file # target
                  /\ Len(importStack) > MaxImportDepth
                  /\ importStack' =
                         [importStack EXCEPT ![Len(importStack)].next = @ + 1]
                  /\ importLog' =
                         Append(importLog, [kind |-> "depth", file |-> target])
    /\ UNCHANGED <<memoryInputs, mpc, dirsLeft, paths, filePaths, fileKinds,
                   contentsWithPaths, loaded, importsOf, startup, tool>>

\* the file has no further import directive: its expansion returns
ImportReturn ==
    /\ importStack # <<>>
    /\ LET top == importStack[Len(importStack)]
       IN  top.next > Len(importsOf[top.file])
    /\ importStack' = SubSeq(importStack, 1, Len(importStack) - 1)
    /\ UNCHANGED <<memoryInputs, mpc, dirsLeft, paths, filePaths, fileKinds,
                   contentsWithPaths, loaded, importsOf, importLog, startup,
                   tool>>

NextImp == ExpandImport \/ ImportCycle \/ ImportTooDeep \/ ImportReturn

\* the expansion is a sequential computation: it always takes its next step
SpecImp == InitImp /\ [][NextImp]_vars /\ WF_vars(NextImp)

(***************************************************************************)
(* getStartupWarnings (packages/cli/src/utils/startupWarnings.ts), as its  *)
(* tests describe it: fs.access, fs.readFile and fs.unlink are called in   *)
(* that order on the temporary warnings file.  The content of the file is  *)
(* the sequence of its lines with a "\n" between two lines; in one call    *)
(* at most one of the three fs calls rejects with an error other than      *)
(* ENOENT, and fs.access rejects with ENOENT when there is no file.        *)
(***************************************************************************)
\* warningsContent.split('\n')
RECURSIVE Split(_)
Split(str) ==
    IF str = <<>> THEN <<"">>
    ELSE LET rest == Split(Tail(str))
         IN  IF Head(str) = "\n" THEN <<"">> \o rest
             ELSE <<Head(str) \o Head(rest)>> \o Tail(rest)

\* getStartupWarnings is called for the first time
InitWarn ==
    /\ warningsFile \in
           {<<>>} \cup
           {<<[i \in 1..(2 * Len(lines) - 1) |->
                  IF i % 2 = 1 THEN lines[(i + 1) \div 2] ELSE "\n"]>> :
                lines \in UNION {[1..n -> {"Warning 1", "Warning 2"}] :
                                     n \in 1..MaxWarnLines}}
    /\ fault \in {"none", "access", "read", "unlink"}
    /\ wpc = "access"
    /\ warnings = <<>>
    /\ returned = <<>>
    /\ LoadingIdle
    /\ readable = {}
    /\ gitDirs = {}
    /\ currentWorkingDirectory = <<>>
    /\ includeDirectoriesToReadContext = <<>>
    /\ contextFilenames = <<>>
    /\ extensionContextFilePaths = <<>>
    /\ mpc = "idle"
    /\ dirsLeft = <<>>
    /\ paths = <<>>
    /\ filePaths = <<>>
    /\ ToolIdle

\* mutant: an error other than ENOENT is thrown on to the caller
AccessWarnings_Rethrows ==
    /\ wpc = "access"
    /\ IF fault = "access"
       THEN /\ wpc' = "rejected"
            /\ UNCHANGED <<warnings, returned>>
       ELSE IF warningsFile = <<>>
       THEN /\ warnings' = <<>>
            /\ returned' = Append(returned, [file |-> warningsFile,
                                             fault |-> fault,
                                             warnings |-> warnings'])
            /\ wpc' = "returned"
       ELSE /\ wpc' = "read"
            /\ UNCHANGED <<warnings, returned>>
    /\ UNCHANGED <<memoryInputs, mpc, dirsLeft, paths, filePaths, loading,
                   warningsFile, fault, tool>>

\* await fs.access: ENOENT returns [], another error returns the error
\* message as the one warning
AccessWarnings ==
    /\ wpc = "access"
    /\ IF fault = "access" \/ warningsFile = <<>>
       THEN /\ warnings' =
                   IF fault = "access"
                   THEN <<"Error checking/reading warnings file: EACCES">>
                   ELSE <<>>
            /\ returned' = Append(returned, [file |-> warningsFile,
                                             fault |-> fault,
                                             warnings |-> warnings'])
            /\ wpc' = "returned"
       ELSE /\ wpc' = "read"
            /\ UNCHANGED <<warnings, returned>>
    /\ UNCHANGED <<memoryInputs, mpc, dirsLeft, paths, filePaths, loading,
                   warningsFile, fault, tool>>

\* await fs.readFile, and the split of the content into lines
ReadWarnings ==
    /\ wpc = "read"
    /\ IF fault = "read"
       THEN /\ warnings' = <<"Error checking/reading warnings file: EIO">>
            /\ returned' = Append(returned, [file |-> warningsFile,
                                             fault |-> fault,
                                             warnings |-> warnings'])
            /\ wpc' = "returned"
       ELSE /\ warnings' = Split(warningsFile[1])
            /\ wpc' = "unlink"
            /\ UNCHANGED returned
    /\ UNCHANGED <<memoryInputs, mpc, dirsLeft, paths, filePaths, loading,
                   warningsFile, fault, tool>>

\* mutant: the file is left in place
UnlinkWarnings_KeepsFile ==
    /\ wpc = "unlink"
    /\ warnings' = warnings
    /\ returned' = Append(returned, [file |-> warningsFile, fault |-> fault,
                                     warnings |-> warnings'])
    /\ wpc' = "returned"
    /\ UNCHANGED <<memoryInputs, mpc, dirsLeft, paths, filePaths, loading,
                   warningsFile, fault, tool>>

\* await fs.unlink, and the return of the warnings
UnlinkWarnings ==
    /\ wpc = "unlink"
    /\ IF fault = "unlink"
       THEN /\ warnings' =
                   Append(warnings,
                          "Warning: Could not delete temporary warnings file.")
            /\ UNCHANGED warningsFile
       ELSE /\ warningsFile' = <<>>
            /\ UNCHANGED warnings
    /\ returned' = Append(returned, [file |-> warningsFile, fault |-> fault,
                                     warnings |-> warnings'])
    /\ wpc' = "returned"
    /\ UNCHANGED <<memoryInputs, mpc, dirsLeft, paths, filePaths, loading,
                   fault, tool>>

\* getStartupWarnings is called once more
CallAgain ==
    /\ wpc = "returned"
    /\ Len(returned) < MaxCalls
    /\ fault' \in {"none", "access", "read", "unlink"}
    /\ warnings' = <<>>
    /\ wpc' = "access"
    /\ UNCHANGED <<memoryInputs, mpc, dirsLeft, paths, filePaths, loading,
                   warningsFile, returned, tool>>

SpecWarn ==
    InitWarn /\ [][AccessWarnings \/ ReadWarnings \/ UnlinkWarnings
                   \/ CallAgain]_vars

(***************************************************************************)
(* Vocabulary of the properties.                                           *)
(***************************************************************************)
Range(seq) == {seq[i] : i \in DOMAIN seq}

\* the discovery step has run and did not throw
Discovered ==
    \/ pc \in {"limit", "loop", "summary"}
    \/ pc = "done" /\ result.kind \in {"countLimit", "ok"}

\* the count limit has been applied
PastLimit ==
    \/ pc \in {"loop", "summary"}
    \/ pc = "done" /\ result.kind \in {"countLimit", "ok"}

\* execute returned through the normal return at the end
ReturnedNormally == pc = "done" /\ result.kind = "ok"

\* the loop over sortedFiles was left by a break at position idx
Broke ==
    /\ pc = "summary" \/ ReturnedNormally
    /\ idx <= Len(sortedFiles)

\* the files that have a part in a list of parts
PartFiles(parts) == {parts[i].file : i \in DOMAIN parts}

\* the skip records with a given reason
SkipsWithReason(reason) ==
    {i \in DOMAIN skippedFiles : skippedFiles[i].reason = reason}

\* the token cost the loop charges for a part that was added whole
PartCost(p) ==
    IF p.marker THEN 0
    ELSE IF p.text THEN (p.len + 3) \div 4 ELSE 85

RECURSIVE SumCost(_)
SumCost(parts) ==
    IF parts = <<>> THEN 0
    ELSE PartCost(parts[1]) + SumCost(Tail(parts))

\* the parts that come from files before f in the sorted order
PartsBefore(f) == SelectSeq(contentParts, LAMBDA p : p.file < f)


(***************************************************************************)
(* C1.  A path glob returns that is outside the workspace is never         *)
(* stat'ed, never read and has no part in the content, and once the        *)
(* discovery step has run a skip record with the security reason naming    *)
(* that path is in skippedFiles.                                           *)
(***************************************************************************)
C1_OutsideNeverTouched ==
    \A f \in DOMAIN fs :
        fs[f] = "outside" =>
            /\ f \notin statted
            /\ f \notin readFiles
            /\ f \notin PartFiles(contentParts)
            /\ f \notin PartFiles(result.llmContent)
            /\ Discovered =>
                   \E i \in DOMAIN skippedFiles :
                       /\ skippedFiles[i].pkind = "file"
                       /\ skippedFiles[i].pn = f
                       /\ skippedFiles[i].x = f
                       /\ skippedFiles[i].reason =
                              "Security: Glob library returned path outside workspace"

\* a run that met a path outside the workspace and read another file
C1_Witness ==
    /\ ReturnedNormally
    /\ \E f \in DOMAIN fs : fs[f] = "outside"
    /\ \E g \in DOMAIN fs : g \in readFiles /\ g \in PartFiles(result.llmContent)

(***************************************************************************)
(* C2.  With parameters that fail validation, execute returns the          *)
(* parameter-error result without calling glob, stat or a file read, and   *)
(* without any skip record, token count or content part.                   *)
(***************************************************************************)
C2_InvalidParamsDoNothing ==
    paramsKind = "invalid" =>
        /\ ~globbed
        /\ statted = {}
        /\ readFiles = {}
        /\ skippedFiles = <<>>
        /\ totalTokens = 0
        /\ contentParts = <<>>
        /\ pc \in {"start", "done"}
        /\ pc = "done" =>
               /\ result.kind = "paramError"
               /\ result.llmContent = <<>>
               /\ result.returnDisplay.skipped = 0

\* execute has returned for invalid parameters, with files it could have found
C2_Witness ==
    /\ paramsKind = "invalid"
    /\ pc = "done"
    /\ Len(fs) > 0

(***************************************************************************)
(* C3.  Under the truncate policy, when there are N > maxItems candidates, *)
(* exactly the first maxItems candidates, in sorted order, go on to the    *)
(* per-item processing, and exactly one skip record is added for the       *)
(* limit, reporting N - maxItems files.                                    *)
(***************************************************************************)
C3_TruncateKeepsFirst ==
    (truncateMode = "truncate" /\ PastLimit /\ Len(candidates) > maxFileCount) =>
        /\ Len(sortedFiles) = maxFileCount
        /\ \A i \in 1..maxFileCount : sortedFiles[i] = candidates[i]
        /\ statted \subseteq {candidates[i] : i \in 1..maxFileCount}
        /\ ReturnedNormally /\ ~Broke =>
               statted = {candidates[i] : i \in 1..maxFileCount}
        /\ Cardinality(SkipsWithReason("truncated to stay within file limit")) = 1
        /\ \A i \in SkipsWithReason("truncated to stay within file limit") :
               /\ skippedFiles[i].pkind = "count"
               /\ skippedFiles[i].pn = Len(candidates) - maxFileCount
               /\ skippedFiles[i].x = maxFileCount

\* six candidates cut to three, all three read
C3_Witness ==
    /\ truncateMode = "truncate"
    /\ ReturnedNormally
    /\ Len(candidates) = 6
    /\ maxFileCount = 3
    /\ PartFiles(result.llmContent) = {candidates[1], candidates[2], candidates[3]}


(***************************************************************************)
(* C4.  Under the sample policy, when there are total > maxItems           *)
(* candidates, the candidates at indices 0, s, 2s, ... below total are     *)
(* selected, with s = ceil(total / maxItems): that is ceil(total / s)      *)
(* candidates, at most maxItems and none when maxItems is 0; one skip      *)
(* record reports total minus the number selected.                         *)
(***************************************************************************)
C4_SampleEveryStep ==
    (truncateMode = "sample" /\ PastLimit /\ Len(candidates) > maxFileCount) =>
        LET total == Len(candidates)
            s == IF maxFileCount = 0 THEN 0
                 ELSE (total + maxFileCount - 1) \div maxFileCount
            selected == IF maxFileCount = 0 THEN 0 ELSE (total + s - 1) \div s
        IN  /\ Len(sortedFiles) = selected
            /\ selected <= maxFileCount
            /\ \A i \in 1..selected : sortedFiles[i] = candidates[(i - 1) * s + 1]
            /\ statted \subseteq Range(sortedFiles)
            /\ Cardinality(SkipsWithReason("sampling to stay within file limit")) = 1
            /\ \A i \in SkipsWithReason("sampling to stay within file limit") :
                   /\ skippedFiles[i].pkind = "count"
                   /\ skippedFiles[i].pn = total - selected
                   /\ skippedFiles[i].x = maxFileCount

\* four candidates sampled for a limit of three: step 2 selects only two
C4_Witness ==
    /\ truncateMode = "sample"
    /\ ReturnedNormally
    /\ Len(candidates) = 4
    /\ maxFileCount = 3
    /\ sortedFiles = <<candidates[1], candidates[3]>>
    /\ PartFiles(result.llmContent) = {candidates[1], candidates[3]}

\* C4 as stated: exactly maxItems candidates are selected, at indices
\* 0, s, 2s, ..., and the skip record reports total - maxItems files
C4_AsStated ==
    (truncateMode = "sample" /\ PastLimit /\ Len(candidates) > maxFileCount) =>
        LET total == Len(candidates)
            s == IF maxFileCount = 0 THEN 0
                 ELSE (total + maxFileCount - 1) \div maxFileCount
        IN  /\ Len(sortedFiles) = maxFileCount
            /\ \A i \in 1..Len(sortedFiles) :
                   sortedFiles[i] = candidates[(i - 1) * s + 1]
            /\ \A i \in SkipsWithReason("sampling to stay within file limit") :
                   skippedFiles[i].pn = total - maxFileCount

(***************************************************************************)
(* C5.  Under the warn policy, when the candidate count exceeds maxItems,  *)
(* execute accepts no item at all: no candidate is stat'ed or read,        *)
(* nothing is added to the content, and it returns at once a warning that  *)
(* names the matched count and the limit.  No skip record is added for     *)
(* the excess, and the skip records made so far are not in the result.     *)
(***************************************************************************)
C5_WarnReturnsWarningOnly ==
    (truncateMode = "warn" /\ PastLimit /\ Len(candidates) > maxFileCount) =>
        /\ pc = "done"
        /\ result.kind = "countLimit"
        /\ result.llmContent = <<>>
        /\ result.returnDisplay.matched = Len(candidates)
        /\ result.returnDisplay.limit = maxFileCount
        /\ result.returnDisplay.skipped = 0
        /\ result.returnDisplay.shownSkipped = <<>>
        /\ statted = {}
        /\ readFiles = {}
        /\ contentParts = <<>>
        /\ \A i \in DOMAIN skippedFiles :
               skippedFiles[i].reason \in
                   {"Security: Glob library returned path outside workspace",
                    "git ignored", "llxprt ignored"}

\* the warning was returned while a security skip record had been made
C5_Witness ==
    /\ truncateMode = "warn"
    /\ pc = "done"
    /\ result.kind = "countLimit"
    /\ Len(candidates) = 2
    /\ maxFileCount = 1
    /\ Len(skippedFiles) = 1
    /\ skippedFiles[1].reason =
           "Security: Glob library returned path outside workspace"

\* C5 as stated: exactly one aggregate skip record describing the excess
\* count is recorded and reported in the result
C5_AsStated ==
    (truncateMode = "warn" /\ pc = "done" /\ PastLimit
     /\ Len(candidates) > maxFileCount) =>
        \E i \in DOMAIN skippedFiles :
            /\ skippedFiles[i].pkind = "count"
            /\ skippedFiles[i].pn = Len(candidates) - maxFileCount
            /\ skippedFiles[i] \in Range(result.returnDisplay.shownSkipped)

(***************************************************************************)
(* C6.  Under every policy, a candidate whose stat size exceeds the        *)
(* per-item byte limit is skipped with its own skip record naming the      *)
(* measured size and the limit (both in KB), is never read, has no part    *)
(* in the content and adds nothing to the running token total.             *)
(***************************************************************************)
C6_OversizedSkipped ==
    /\ totalTokens = SumCost(contentParts)
    /\ \A f \in statted :
           fs[f] = "tooBig" =>
               /\ f \notin readFiles
               /\ f \notin PartFiles(contentParts)
               /\ f \notin Range(processedFilesRelativePaths)
               /\ Cardinality({i \in DOMAIN skippedFiles :
                                   skippedFiles[i].pn = f
                                   /\ skippedFiles[i].pkind = "file"}) = 1
               /\ \E i \in DOMAIN skippedFiles :
                      skippedFiles[i] =
                          [pkind |-> "file", pn |-> f,
                           reason |-> "file size exceeds limit",
                           x |-> 586, y |-> 512]

\* an oversized file was skipped and a later file was still read
C6_Witness ==
    /\ ReturnedNormally
    /\ truncateMode = "truncate"
    /\ \E f \in statted, g \in readFiles :
           /\ fs[f] = "tooBig"
           /\ f < g
           /\ g \in PartFiles(result.llmContent)


(***************************************************************************)
(* C7.  Under the warn policy, once an item's estimated token cost would   *)
(* push the running total above maxAggregateTokens, no item later in the   *)
(* sorted order is added to the content, whether the item over the budget  *)
(* is a text file or an image/PDF.                                         *)
(***************************************************************************)
C7_WarnStopsAtOverflow ==
    truncateMode = "warn" =>
        /\ \A i \in SkipsWithReason("would exceed token limit (non-text content)") :
               \A j \in DOMAIN contentParts :
                   contentParts[j].file < skippedFiles[i].pn
        /\ SkipsWithReason("would exceed token limit") # {} =>
               /\ Broke
               /\ \A j \in DOMAIN contentParts :
                      contentParts[j].file < sortedFiles[idx]

(***************************************************************************)
(* C8.  Under the truncate policy, when a text item's estimated token      *)
(* cost would push the running total above maxAggregateTokens: if more     *)
(* than 100 tokens of budget remain, the first remaining * 4 characters    *)
(* of the item's content (a prefix that fits the remaining budget) are     *)
(* added followed by the truncation marker; if 100 tokens or fewer         *)
(* remain, nothing of the item is added; either way no later item is       *)
(* processed.                                                              *)
(***************************************************************************)
C8_TruncateAddsPrefixWhenRoom ==
    (truncateMode = "truncate" /\ Broke) =>
        LET f == sortedFiles[idx]
            remaining == maxTokens - totalTokens
            n == Len(contentParts)
        IN  /\ remaining > 100 =>
                   /\ n > 0
                   /\ contentParts[n].file = f
                   /\ contentParts[n].text
                   /\ contentParts[n].marker
                   /\ contentParts[n].len = remaining * 4
                   /\ contentParts[n].len < ContentToAddLen(f)
                   /\ (contentParts[n].len + 3) \div 4 <= remaining
                   /\ \A j \in 1..(n - 1) : contentParts[j].file # f
                   /\ processedFilesRelativePaths[Len(processedFilesRelativePaths)] = f
            /\ remaining <= 100 =>
                   /\ f \notin PartFiles(contentParts)
                   /\ f \notin Range(processedFilesRelativePaths)
            /\ \A k \in (idx + 1)..Len(sortedFiles) :
                   /\ sortedFiles[k] \notin statted
                   /\ sortedFiles[k] \notin readFiles
                   /\ sortedFiles[k] \notin PartFiles(contentParts)
            /\ ReturnedNormally => result.llmContent =
                   IF n = 0 THEN <<NoFilesPart>> ELSE contentParts

\* a prefix with the marker was returned, and a later candidate was left out
C8_Witness ==
    /\ truncateMode = "truncate"
    /\ ReturnedNormally
    /\ Broke
    /\ idx < Len(sortedFiles)
    /\ maxTokens - totalTokens > 100
    /\ result.llmContent[Len(result.llmContent)].marker

\* C8 as stated: a prefix with the marker is added for every value of the
\* remaining budget
C8_AsStated ==
    (truncateMode = "truncate" /\ Broke) =>
        LET n == Len(contentParts)
        IN  /\ n > 0
            /\ contentParts[n].file = sortedFiles[idx]
            /\ contentParts[n].marker
            /\ (contentParts[n].len + 3) \div 4 <= maxTokens - totalTokens

(***************************************************************************)
(* C9.  Under the sample policy, an item whose estimated token cost would  *)
(* push the running total above maxAggregateTokens is skipped alone, with  *)
(* its own skip record, the running total stays the sum of the accepted    *)
(* parts, and the loop goes on: every candidate is examined, and each      *)
(* later item that fits the budget left by the accepted ones is accepted.  *)
(***************************************************************************)
C9_SampleSkipsOnlyTheItem ==
    truncateMode = "sample" =>
        /\ pc # "summary"
        /\ ~Broke
        /\ totalTokens = SumCost(contentParts)
        /\ ReturnedNormally =>
               /\ statted = Range(sortedFiles)
               /\ \A f \in readFiles :
                      fs[f] # "readError" =>
                          LET cost == IF fs[f] = "asset" THEN 85
                                      ELSE (ContentToAddLen(f) + 3) \div 4
                              before == SumCost(PartsBefore(f))
                              own == {i \in DOMAIN skippedFiles :
                                          skippedFiles[i].pkind = "file"
                                          /\ skippedFiles[i].pn = f}
                          IN  IF before + cost > maxTokens
                              THEN /\ f \notin PartFiles(contentParts)
                                   /\ Cardinality(own) = 1
                                   /\ \A i \in own : skippedFiles[i].reason \in
                                          {"skipped to stay within token limit",
                                           "would exceed token limit (non-text content)"}
                              ELSE /\ f \in PartFiles(contentParts)
                                   /\ own = {}

\* a text item over the budget was skipped and a later, smaller one accepted
C9_Witness ==
    /\ truncateMode = "sample"
    /\ ReturnedNormally
    /\ \E i \in SkipsWithReason("skipped to stay within token limit") :
           \E g \in PartFiles(result.llmContent) : skippedFiles[i].pn < g

(***************************************************************************)
(* C10.  On the normal return, returnDisplay lists the reasons of the      *)
(* first five skip records, in the order recorded, and states the total    *)
(* number of skip records and how many are not listed; the reasons of      *)
(* later records are not in it.  On every other return (parameter error,   *)
(* no patterns, file-search error, count-limit warning) returnDisplay      *)
(* lists no skip record.                                                   *)
(***************************************************************************)
C10_FirstFiveSkipsShown ==
    pc = "done" =>
        LET n == Len(skippedFiles)
            shown == result.returnDisplay.shownSkipped
        IN  IF result.kind = "ok"
            THEN /\ Len(shown) = IF n <= 5 THEN n ELSE 5
                 /\ \A i \in 1..Len(shown) : shown[i] = skippedFiles[i]
                 /\ result.returnDisplay.skipped = n
                 /\ result.returnDisplay.moreSkipped = IF n <= 5 THEN 0 ELSE n - 5
            ELSE /\ shown = <<>>
                 /\ result.returnDisplay.skipped = 0

\* a normal return with more than five skip records
C10_Witness ==
    /\ ReturnedNormally
    /\ Len(skippedFiles) > 5
    /\ Len(result.returnDisplay.shownSkipped) = 5
    /\ result.returnDisplay.moreSkipped = Len(skippedFiles) - 5

\* C10 as stated: the reason of every skip record is in returnDisplay
C10_AsStated ==
    pc = "done" =>
        \A i \in DOMAIN skippedFiles :
            \E j \in DOMAIN result.returnDisplay.shownSkipped :
                LET shown == result.returnDisplay.shownSkipped[j]
                IN  /\ shown.reason = skippedFiles[i].reason
                    /\ shown.x = skippedFiles[i].x
                    /\ shown.y = skippedFiles[i].y


(***************************************************************************)
(* C11.  When execute completes, every candidate (every path that passed   *)
(* the workspace and ignore filters) either has a part in the content or   *)
(* is covered by a skip record: its own, or an aggregate record whose      *)
(* count reaches it.  The count-limit warning, which names the number of   *)
(* matched files, is taken to cover them all.                              *)
(***************************************************************************)
\* the candidates with neither a part nor a skip record of their own
Unrecorded ==
    {f \in Range(candidates) :
        /\ f \notin PartFiles(contentParts)
        /\ ~\E i \in DOMAIN skippedFiles :
               skippedFiles[i].pkind = "file" /\ skippedFiles[i].pn = f}

\* the aggregate skip records that stand for candidates
AggregateSkips ==
    {i \in DOMAIN skippedFiles :
        skippedFiles[i].reason \in {"sampling to stay within file limit",
                                    "truncated to stay within file limit",
                                    "would exceed token limit"}}

RECURSIVE SumCounts(_)
SumCounts(I) ==
    IF I = {} THEN 0
    ELSE LET i == CHOOSE j \in I : TRUE
         IN  skippedFiles[i].pn + SumCounts(I \ {i})

C11_EveryCandidateAccounted ==
    /\ (pc = "done" /\ result.kind = "countLimit") =>
           result.returnDisplay.matched = Len(candidates)
    /\ ReturnedNormally => Cardinality(Unrecorded) <= SumCounts(AggregateSkips)

(***************************************************************************)
(* C12.  A stat failure or a read error on one candidate adds that file's  *)
(* skip record and does not stop the loop: the loop is never left at a     *)
(* failed file, every candidate before the position of the loop has been   *)
(* examined, and the failed file has no part and adds nothing to the       *)
(* running token total.                                                    *)
(***************************************************************************)
C12_FailureDoesNotAbort ==
    /\ totalTokens = SumCost(contentParts)
    /\ (PastLimit /\ result.kind # "countLimit") =>
           statted = {sortedFiles[k] :
                          k \in 1..(IF Broke THEN idx ELSE idx - 1)}
    /\ \A f \in statted :
           fs[f] \in {"statError", "readError"} =>
               /\ Broke => sortedFiles[idx] # f
               /\ f \notin PartFiles(contentParts)
               /\ f \notin Range(processedFilesRelativePaths)
               /\ fs[f] = "statError" => f \notin readFiles
               /\ Cardinality({i \in DOMAIN skippedFiles :
                                   skippedFiles[i].pkind = "file"
                                   /\ skippedFiles[i].pn = f}) = 1
               /\ \E i \in DOMAIN skippedFiles :
                      /\ skippedFiles[i].pkind = "file"
                      /\ skippedFiles[i].pn = f
                      /\ skippedFiles[i].reason =
                             IF fs[f] = "statError" THEN "stat error"
                             ELSE "Read error"

\* a stat failure, then a read error, then a file that was read and added
C12_Witness ==
    /\ ReturnedNormally
    /\ \E f, g, h \in statted :
           /\ f < g /\ g < h
           /\ fs[f] = "statError"
           /\ fs[g] = "readError"
           /\ h \in PartFiles(result.llmContent)

(***************************************************************************)
(* C13.  A path outside the workspace is refused alone: it is left out of  *)
(* the candidates, and execute goes on with every other discovered path    *)
(* that no ignore filter drops, reads them and returns their content.      *)
(***************************************************************************)
C13_OutsidePathSkippedAlone ==
    ((\E f \in DOMAIN fs : fs[f] = "outside") /\ Discovered) =>
        /\ Range(candidates) =
               {f \in DOMAIN fs :
                    /\ fs[f] # "outside"
                    /\ ~(respectGit /\ fs[f] = "gitIgnored")
                    /\ ~(respectLlxprt /\ fs[f] = "llxprtIgnored")}
        /\ (ReturnedNormally /\ ~Broke) => statted = Range(sortedFiles)
        /\ ReturnedNormally =>
               \A f \in Range(sortedFiles) :
                   (fs[f] = "small" /\ maxTokens = DEFAULT_MAX_TOKENS) =>
                       f \in PartFiles(result.llmContent)

\* content was returned for files on both sides of a path outside the workspace
C13_Witness ==
    /\ ReturnedNormally
    /\ \E f, g, h \in DOMAIN fs :
           /\ f < g /\ g < h
           /\ fs[g] = "outside"
           /\ {f, h} \subseteq PartFiles(result.llmContent)

\* C13 as stated: when any discovered path is outside the workspace,
\* execution is refused and no file content is returned
C13_AsStated ==
    ((\E f \in DOMAIN fs : fs[f] = "outside") /\ pc = "done") =>
        /\ result.kind # "ok"
        /\ statted = {}
        /\ readFiles = {}
        /\ contentParts = <<>>


(***************************************************************************)
(* C14.  The exclusion sources combine as a union: the candidates are      *)
(* exactly the discovered paths inside the workspace that no source in     *)
(* effect matches, so a path matched by any source is never stat'ed, read  *)
(* or returned, whatever the other sources hold.                           *)
(***************************************************************************)
\* some exclusion source in effect matches the file
ExcludedBySomeSource(f) ==
    \/ params.useDefaultExcludes # <<FALSE>> /\ "default" \in excludedBy[f]
    \/ params.exclude # <<>> /\ "exclude" \in excludedBy[f]
    \/ llxprtIgnorePatterns # <<>> /\ "llxprt" \in excludedBy[f]
    \/ respectGit /\ fs[f] = "gitIgnored"
    \/ respectLlxprt /\ fs[f] = "llxprtIgnored"

ExpectedCandidates ==
    SelectSeq([i \in 1..Len(fs) |-> i],
              LAMBDA f : fs[f] # "outside" /\ ~ExcludedBySomeSource(f))

\* the files the loop goes through, from the files and the settings alone
ExpectedSorted ==
    IF Len(ExpectedCandidates) <= maxFileCount THEN ExpectedCandidates
    ELSE IF truncateMode = "sample"
         THEN SampledFiles(ExpectedCandidates, maxFileCount)
         ELSE TruncatedFiles(ExpectedCandidates, maxFileCount)

\* the parts the loop over files adds from position i on, given the token
\* total and the parts so far
RECURSIVE ExpectedParts(_, _, _, _)
ExpectedParts(files, i, total, acc) ==
    IF i > Len(files) THEN acc
    ELSE LET f == files[i]
             cost == IF IsAsset(f) THEN AssetTokens ELSE ContentTokens(f)
         IN  IF \/ fs[f] \in {"statError", "tooBig", "assetNotRequested",
                              "readError"}
                \/ IsAsset(f) /\ total + cost > maxTokens
                \/ truncateMode = "sample" /\ total + cost > maxTokens
             THEN ExpectedParts(files, i + 1, total, acc)
             ELSE IF total + cost <= maxTokens
             THEN ExpectedParts(files, i + 1, total + cost,
                      Append(acc, IF IsAsset(f) THEN Part(f, FALSE, 0, FALSE)
                                  ELSE Part(f, TRUE, ContentToAddLen(f), FALSE)))
             ELSE IF truncateMode = "truncate"
                     /\ maxTokens - total > MinTruncateTokens
             THEN Append(acc, Part(f, TRUE,
                                   Min(ContentToAddLen(f),
                                       (maxTokens - total) * CharsPerToken),
                                   TRUE))
             ELSE acc

\* machineContent, from the parameters, the settings and the files alone
ExpectedContent ==
    IF Len(ExpectedCandidates) > maxFileCount /\ truncateMode = "warn"
    THEN <<>>
    ELSE LET parts == ExpectedParts(ExpectedSorted, 1, 0, <<>>)
         IN  IF parts = <<>> THEN <<NoFilesPart>> ELSE parts

C16_ContentIndependentOfGlobOrder ==
    /\ Discovered => candidates = ExpectedCandidates
    /\ (pc = "done" /\ result.kind \in {"ok", "countLimit"}) =>
           result.llmContent = ExpectedContent

\* two workspace directories returned the same path, the later file first,
\* and the content holds both files once, in ascending order
C16_Witness ==
    /\ ReturnedNormally
    /\ globRuns = "twoDirs"
    /\ Len(GlobResults(<<>>)[2]) = 2
    /\ Len(result.llmContent) = 2
    /\ result.llmContent[1].file = 1
    /\ result.llmContent[2].file = 2


(***************************************************************************)
(* C17.  Once the signal is aborted while execute runs on parameters that  *)
(* name a search pattern, no further file is stat'ed or read, and execute  *)
(* returns a cancelled outcome that is not an error result and carries no  *)
(* content.                                                                *)
(***************************************************************************)
C17_CancelObserved ==
    (abortedAt >= 0 /\ ~ValidationError /\ ~NoSearchPatterns) =>
        /\ Cardinality(statted) = abortedAt
        /\ pc = "done" =>
               /\ result.kind = "cancelled"
               /\ result.llmContent = <<>>


(***************************************************************************)
(* Vocabulary of the properties of memory discovery.                       *)
(***************************************************************************)
\* getContextFilePathsInternal has returned
PathsReturned == mpc = "paths"

\* the position of a path in the returned list
Pos(path) == CHOOSE i \in DOMAIN filePaths : filePaths[i] = path

\* the directory roots scanned
Roots ==
    Range(includeDirectoriesToReadContext) \cup {currentWorkingDirectory}

\* the paths each phase finds, for a set of context filenames
GlobalFound(names) ==
    {GlobalDir \o <<n>> : n \in names} \cap {path \in readable : TRUE}

UpwardFound(names) ==
    UNION {Range(UpwardScan(d, n, UltimateStopDir(d), <<>>)) :
               d \in Roots, n \in names}

DownwardFound(names) ==
    UNION {Range(bfsFileSearch(d, n)) : d \in Roots, n \in names}

\* the downward paths that no earlier phase found
DownwardOnly(names) ==
    DownwardFound(names) \ (GlobalFound(names) \cup UpwardFound(names))

PhasePaths ==
    LET names == Range(contextFilenames)
    IN  GlobalFound(names) \cup UpwardFound(names) \cup DownwardFound(names)

\* the extension paths that no phase found
ExtensionOnly == Range(extensionContextFilePaths) \ PhasePaths

\* every path of A comes before every path of B in the returned list
Precede(A, B) == \A a \in A, b \in B : Pos(a) < Pos(b)

\* global, upward root-to-leaf, downward lexicographic, among the paths
\* of the given filenames; then the extension paths
PhaseOrder(names) ==
    /\ Precede(GlobalFound(names), UpwardFound(names))
    /\ Precede(GlobalFound(names), DownwardOnly(names))
    /\ Precede(UpwardFound(names), DownwardOnly(names))
    /\ \A a, b \in UpwardFound(names) :
           (a # b /\ IsPrefix(dirname(a), dirname(b))) => Pos(a) < Pos(b)
    /\ \A a, b \in DownwardOnly(names) : PathLess(a, b) => Pos(a) < Pos(b)
    /\ Precede(GlobalFound(names) \cup UpwardFound(names)
               \cup DownwardOnly(names), ExtensionOnly)

C19_ExtensionPathsLast ==
    PathsReturned =>
        \A e \in Range(extensionContextFilePaths) :
            /\ e \in Range(filePaths)
            /\ Precede(PhasePaths \ {e}, {e})

(***************************************************************************)
(* C20.  No two entries of the returned list denote the same file.         *)
(***************************************************************************)
C20_EachFileOnce ==
    PathsReturned =>
        \A i, j \in DOMAIN filePaths :
            i # j => Canonical(filePaths[i]) # Canonical(filePaths[j])

(***************************************************************************)
(* C28.  The skip record added when a text file overflows the token budget *)
(* under the warn policy counts the overflowing file and the files after   *)
(* it in the sorted order, and no file skipped earlier.                    *)
(***************************************************************************)
C28_WarnCountsRemaining ==
    \A i \in DOMAIN skippedFiles :
        skippedFiles[i].pkind = "remaining" =>
            skippedFiles[i].pn = Len(sortedFiles) - idx + 1

(***************************************************************************)
(* Vocabulary of C29 and C30.                                              *)
(***************************************************************************)
\* the estimated token cost of a part as it stands in the content, the
\* truncation marker included
ActualCost(p) ==
    IF p.text
    THEN estimateTokens(p.len + (IF p.marker THEN TruncMarkerLen ELSE 0))
    ELSE AssetTokens

\* the estimated token cost of a part without its truncation marker
PrefixCost(p) == IF p.text THEN estimateTokens(p.len) ELSE AssetTokens

RECURSIVE SumSeq(_)
SumSeq(costs) ==
    IF costs = <<>> THEN 0 ELSE Head(costs) + SumSeq(Tail(costs))

ActualTotal == SumSeq([i \in DOMAIN contentParts |-> ActualCost(contentParts[i])])

PrefixTotal == SumSeq([i \in DOMAIN contentParts |-> PrefixCost(contentParts[i])])

(***************************************************************************)
(* C29.  In every state and under every policy, the estimated token costs  *)
(* of the file parts of the content sum to at most maxTokens when a        *)
(* truncated part is charged for its prefix alone, and to at most          *)
(* maxTokens plus the cost of the truncation marker as the parts stand.    *)
(***************************************************************************)
C29_PrefixesWithinBudget ==
    /\ PrefixTotal <= maxTokens
    /\ ActualTotal <= maxTokens + estimateTokens(TruncMarkerLen)

\* a whole part and a truncated one that fill the budget to the last token
C29_Witness ==
    /\ ReturnedNormally
    /\ truncateMode = "truncate"
    /\ Len(contentParts) = 2
    /\ contentParts[2].marker
    /\ PrefixTotal = maxTokens

\* C29 as stated: the parts as they stand sum to at most maxTokens
C29_AsStated == ActualTotal <= maxTokens

(***************************************************************************)
(* C30.  Once the count limit has been applied, at most maxFileCount       *)
(* files have a part in the content, and on the normal return the number   *)
(* of files the display reports as read is the number of files with a      *)
(* part in llmContent.                                                     *)
(***************************************************************************)
C30_PartsWithinMaxItems ==
    /\ Cardinality(PartFiles(contentParts)) <= maxFileCount
    /\ Len(contentParts) = Cardinality(PartFiles(contentParts))
    /\ ReturnedNormally =>
           result.returnDisplay.processed =
               Cardinality(PartFiles(result.llmContent) \ {0})

\* the sample policy cut the candidates down to maxFileCount, and every
\* one of them has its part
C30_Witness ==
    /\ ReturnedNormally
    /\ truncateMode = "sample"
    /\ Len(candidates) > maxFileCount
    /\ maxFileCount >= 2
    /\ Len(result.llmContent) = maxFileCount
    /\ result.returnDisplay.processed = maxFileCount

(***************************************************************************)
(* Vocabulary of C21 and C22: one directory root, one context filename.    *)
(***************************************************************************)
\* the start directory and the directories above it, the root left out
Ancestors(dir) == {d \in TreeDirs : IsPrefix(d, dir)}

\* the nearest directory, from the start directory up, with a .git
\* directory: a set of one directory, or of none
NearestMarked ==
    LET marked == Ancestors(currentWorkingDirectory) \cap gitDirs
    IN  {d \in marked : \A e \in marked : Len(e) <= Len(d)}

\* the context file of a directory is in the returned list
Recorded(d) == d \o <<contextFilenames[1]>> \in Range(filePaths)

\* the context file of a directory is readable
HasContextFile(d) == d \o <<contextFilenames[1]>> \in readable

\* the upward scan is cut short at d: the global configuration directory
\* is d or lies between d and the start directory
CutShort(d) ==
    /\ IsPrefix(GlobalDir, currentWorkingDirectory)
    /\ IsPrefix(d, GlobalDir)

\* the upward scan, stopping after the directory stop when it is on the
\* way, examines the directory d
Examined(d, stop) ==
    /\ d \in Ancestors(currentWorkingDirectory)
    /\ IsPrefix(stop, currentWorkingDirectory) => IsPrefix(stop, d)
    /\ ~CutShort(d)

\* the returned list holds the readable context files of the directories
\* examined and, above the start directory, no other
ScannedUpTo(stop) ==
    \A d \in Ancestors(currentWorkingDirectory) :
        /\ (Examined(d, stop) /\ HasContextFile(d)) => Recorded(d)
        /\ (~Examined(d, stop) /\ d \notin {currentWorkingDirectory, GlobalDir})
               => ~Recorded(d)

Loaded == mpc = "loaded"

\* reading the file of a path, or expanding its imports, fails
FailsToLoad(path) ==
    fileKinds[Canonical(path)] \in {"readError", "importError"}

(***************************************************************************)
(* C23.  readContextFiles never leaves by an exception: each result is     *)
(* that of the path at its position in the path list, with null content    *)
(* when the read or the import expansion of the file failed and with the   *)
(* file's content otherwise, whatever happened to the files before it;     *)
(* and when loadServerHierarchicalMemory has returned there is a result    *)
(* for every path.                                                         *)
(***************************************************************************)
C23_ReadFailureNotFatal ==
    /\ mpc # "threw"
    /\ Len(contentsWithPaths) <= Len(filePaths)
    /\ \A i \in DOMAIN contentsWithPaths :
           /\ contentsWithPaths[i].filePath = filePaths[i]
           /\ contentsWithPaths[i].content =
                  IF FailsToLoad(filePaths[i]) THEN <<>>
                  ELSE <<Content(fileKinds[Canonical(filePaths[i])])>>
    /\ Loaded => Len(contentsWithPaths) = Len(filePaths)

\* three files, the second of which failed: the first and the third have
\* their content in the document returned
C23_Witness ==
    /\ Loaded
    /\ Len(filePaths) = 3
    /\ FailsToLoad(filePaths[2])
    /\ contentsWithPaths[2].content = <<>>
    /\ Len(loaded.memoryContent) = 2

(***************************************************************************)
(* C24.  The fileCount that loadServerHierarchicalMemory returns is the    *)
(* number of blocks in memoryContent.                                      *)
(***************************************************************************)
C24_FileCountIsBlocks ==
    Loaded => loaded.fileCount = Len(loaded.memoryContent)

(***************************************************************************)
(* C25.  Import expansion ends on every import graph; no file is being     *)
(* expanded twice at one time; and when the context file and a file it     *)
(* imports import each other, or the context file imports itself, the      *)
(* expansion ends with a cycle diagnostic that names the context file.     *)
(***************************************************************************)
C25_ImportCyclesEndReported ==
    /\ [](\A i, j \in DOMAIN importStack :
              i # j => importStack[i].file # importStack[j].file)
    /\ []((importStack = <<>>
           /\ \E f \in Range(importsOf["a"]) : "a" \in Range(importsOf[f]))
          => \E i \in DOMAIN importLog :
                 importLog[i] = [kind |-> "cycle", file |-> "a"])
    /\ <>(importStack = <<>>)

\* A imports B and B imports A: B was expanded once, the repeat of A gave
\* the one diagnostic, and the expansion has ended
C25_Witness ==
    /\ importsOf["a"] = <<"b">>
    /\ importsOf["b"] = <<"a">>
    /\ importStack = <<>>
    /\ importLog = <<[kind |-> "expand", file |-> "b"],
                     [kind |-> "cycle", file |-> "a"]>>

(***************************************************************************)
(* Vocabulary of C26 and C27.                                              *)
(***************************************************************************)
\* the lines of a content, in file order
Lines(content) == [k \in 1..((Len(content) + 1) \div 2) |-> content[2 * k - 1]]

\* the call found the file and none of its fs calls failed
Consumed(call) == call.file # <<>> /\ call.fault = "none"

(***************************************************************************)
(* C26.  A call that finds the warnings file and in which no fs call       *)
(* fails returns the lines of the file in file order, one element for      *)
(* each line, and has deleted the file when it returns; the call after     *)
(* it finds no file and, its fs.access rejecting with ENOENT, returns      *)
(* the empty array.                                                        *)
(***************************************************************************)
C26_WarningsConsumedOnce ==
    \A i \in DOMAIN returned :
        Consumed(returned[i]) =>
            /\ returned[i].warnings = Lines(returned[i].file[1])
            /\ (i = Len(returned) /\ wpc = "returned") => warningsFile = <<>>
            /\ (i + 1) \in DOMAIN returned =>
                   /\ returned[i + 1].file = <<>>
                   /\ returned[i + 1].fault # "access" =>
                          returned[i + 1].warnings = <<>>

\* the first call returned two lines, the second the empty array
C26_Witness ==
    /\ Len(returned) = 2
    /\ Consumed(returned[1])
    /\ returned[1].warnings = <<"Warning 1", "Warning 2">>
    /\ returned[2].fault = "none"
    /\ returned[2].warnings = <<>>

(***************************************************************************)
(* C27.  getStartupWarnings never rejects.  Without a file it returns the  *)
(* empty array; when fs.access or fs.readFile rejects with another error   *)
(* it returns the one element 'Error checking/reading warnings file: '     *)
(* and the message; when fs.unlink rejects it returns the lines of the     *)
(* file followed by the warning that the file could not be deleted.        *)
(***************************************************************************)
C27_FailuresAreWarnings ==
    /\ wpc # "rejected"
    /\ \A i \in DOMAIN returned :
           LET call == returned[i]
           IN  /\ call.fault = "access" =>
                      call.warnings =
                          <<"Error checking/reading warnings file: EACCES">>
               /\ (call.file = <<>> /\ call.fault # "access") =>
                      call.warnings = <<>>
               /\ (call.file # <<>> /\ call.fault = "read") =>
                      call.warnings =
                          <<"Error checking/reading warnings file: EIO">>
               /\ (call.file # <<>> /\ call.fault = "unlink") =>
                      call.warnings =
                          Lines(call.file[1]) \o
                          <<"Warning: Could not delete temporary warnings file.">>

\* a call could not delete the file, and the next could not access it
C27_Witness ==
    /\ Len(returned) = 2
    /\ returned[1].fault = "unlink"
    /\ returned[1].warnings =
           <<"Warning 1", "Warning 2",
             "Warning: Could not delete temporary warnings file.">>
    /\ returned[2].fault = "access"
    /\ Len(returned[2].warnings) = 1

====
